---- MODULE Spec2Model ----
(***************************************************************************)
(* Transcript cursor and result store of server/DatabaseHandler.py.        *)
(*                                                                         *)
(* Strings are sequences of one-character strings.  Python indexes from 0, *)
(* TLA+ from 1: the Python character text[i] is text[i + 1] here, and every *)
(* index kept in the state (cse_consumed_transcript_idx, start_index) is   *)
(* the Python index.                                                       *)
(***************************************************************************)
EXTENDS Integers, Sequences, FiniteSets, TLC

VARIABLES user_collection, hist, window, obs, pc, local, custom_data, engine,
          journal

vars ==
  <<user_collection, hist, window, obs, pc, local, custom_data, engine, journal>>

----------------------------------------------------------------------------
(* Bounds of the model *)

MaxFinals == 2
MaxUsersFinals == 1
MaxConcFinals == 1
MaxResults == 1
MaxWords == 3
MaxRareWords == 2
MaxCalls == 5
MaxSnapLen == 4
MaxTitleLen == 4
MaxContacts == 4

(* Inputs *)

SP == " "

Texts ==
  { <<"a", "b">>,
    <<"a", SP, "b", "c", "d">>,
    <<"a", SP, SP, SP>>,
    <<"a", SP, "b", SP, "c", SP, "d", SP, "e">> }

UserIds == {"u1", "u2"}
SeqUsers == {"u1"}
UsersTexts == { <<"a", SP, "b", "c", "d">> }
DeleteTexts == { <<"a", "b">>, <<"a", SP, "b", "c", "d">>, <<"a", SP, SP, SP>> }
ConcTexts == { <<"a", SP, "b", "c", "d">> }
EmptyTexts == { <<>>, <<"a", SP, "b", "c", "d">> }
FlowTexts ==
  { <<"f", SP, "g", "h">>, <<"a", SP, "b", SP, "c", SP, "d", SP, "e">> }
WindowWords == { <<"a">>, <<"b">>, <<"c">> }

Candidates ==
  { <<"t", "h", "e">>,
    <<"a", "b", SP, "c", "d", "e">>,
    <<"f", "e", "d", "o", "r", "a", SP, "t", "i", "p">>,
    <<"F", "e", "d", "o", "r", "a", SP, "T", "i", "p">>,
    <<"t", "h", "e", SP, "f", "e", "d", "o", "r", "a">>,
    <<"t", "o", SP, "s", "o", SP, "a", "b", SP, "c", "d", SP, "e", "f">>,
    <<"f", "e", "d", "o", "r", "a", SP, "t", "i", "p", SP, "t", "o">>,
    <<"p", "e", "o", "p", "l", "e", SP, "t", "i", "m", "e">>,
    <<"b", "a", "n", "a", "n", "a", SP, "b", "a">>,
    <<"x", SP, "b", "c", "d", "e", "f", "g", "x">>,
    <<"A", "U", "G", "M", "E", "N", "T", "O", "S">>,
    <<SP, SP, SP, SP, SP, SP, SP, SP>> }

FedoraTipsAndTricks ==
  <<"F", "e", "d", "o", "r", "a", SP, "T", "i", "p", "s", SP, "a", "n", "d",
    SP, "T", "r", "i", "c", "k", "s">>

Catalogs ==
  { <<>>,
    << FedoraTipsAndTricks >>,
    << <<"A", "b", SP, "C", "d", "e">>,
       <<"F", "e", "d", "o", "r", "a", SP, "T", "i", "p">> >>,
    << <<"F", "e", "d", "o", "r", "a", "T", "i", "p">>,
       <<"f", "e", "d", "o", "r", "a", SP, "t", "i", "p", "s", ":">>,
       <<"F", "e", "d", "o", "r", "a", SP, "T", "i", "p">> >>,
    << <<"x", "b", "a", "n", "a", "n", "a", SP, "b", "a", "n", "a", "n", "a",
         SP, "b", "a">> >>,
    << <<"x", SP, "b", "c", "d", "e", "f", "g", "x", SP, "b", "c", "d", "e",
         "f", "g", "x">> >>,
    << <<"X", "f", "e", "d", "o", "r", "a", SP, "T", "i", "p">>,
       <<"F", "e", "d", "o", "r", "a", SP, "T", "i", "p", "s", "y">>,
       <<"A", "U", "G", "M", "E", "N", "T", "O", "S">> >> }

Ties == {"first", "last"}

\* the two word-frequency indexes (lines 18-21): word -> rows of the CSV file
\* that hold it, rows counted from 0
idx_google_dict_word_freq ==
  { [word |-> <<"t", "h", "e">>, rows |-> <<0>>],
    [word |-> <<"h", "a", "b">>, rows |-> <<30733>>],
    [word |-> <<"g", "o", "l">>, rows |-> <<30734, 12>>],
    [word |-> <<"a", "t">>, rows |-> <<100>>],
    [word |-> <<"w", "h">>, rows |-> <<200, 333333>>],
    [word |-> <<"z", "z">>, rows |-> <<333333>>],
    [word |-> <<"o", "n">>, rows |-> <<300>>] }

idx_norvig_dict_word_freq ==
  { [word |-> <<"t", "h", "e">>, rows |-> <<0>>],
    [word |-> <<"a", "t">>, rows |-> <<27030>>],
    [word |-> <<"w", "h">>, rows |-> <<27031, 3>>],
    [word |-> <<"z", "z">>, rows |-> <<29999>>],
    [word |-> <<"h", "a", "b">>, rows |-> <<5>>] }

RareWordInputs ==
  { <<"T", "h", "e">>, <<"h", "a", "b">>, <<"g", "o", "l">>, <<"A", "T">>, <<"w", "h">>, <<"Z", "z">>, <<"o", "n">>, <<"q", "x">> }

\* self.custom_data[user_id] is a pandas DataFrame, modelled by its columns,
\* or the dict() of line 337
NaN == "nan"
None == "None"

DataFrame(columns) == [kind |-> "DataFrame", columns |-> columns]
EmptyDict == [kind |-> "dict", columns |-> <<>>]

\* catalogs as load_custom_user_data leaves them (lines 316-337)
FedoraCatalog ==
  DataFrame([title |-> << <<"F", "e", "d", "o", "r", "a", SP, "T", "i", "p">>,
                        <<"F", "e", "d", "o", "r", "a", "T", "i", "p">>,
                        <<"f", "e", "d", "o", "r", "a", SP, "t", "i", "p", "s", ":">>,
                        <<"F", "e", "d", "o", "r", "a", SP, "T", "i", "p", "s">>,
                        <<"f", "e", "d", "o", "r", "a", SP, "t", "i", "p">>,
                        <<"F", "e", "d", "o", "r", "a", SP, "T", "i", "p", "s">>,
                        <<"A", "b", SP, "C", "d", "e">> >>,
             description |-> <<"s0", "s1", NaN, "s3", "s4", "s5", "s6">>,
             url |-> <<"l0", NaN, "l2", None, "l4", "l5", "l6">>])

SmallCatalog ==
  DataFrame([title |-> << FedoraTipsAndTricks, <<"A", "b", SP, "C", "d", "e">> >>,
             description |-> <<"s0", "s1">>])

NoRows == DataFrame([title |-> <<>>, description |-> <<>>])

CustomData ==
  { <<>>,
    [u \in {"u1", "u2"} |-> IF u = "u1" THEN EmptyDict ELSE FedoraCatalog],
    [u \in {"u1", "u2"} |-> IF u = "u1" THEN NoRows ELSE SmallCatalog],
    [u \in {"u1"} |-> SmallCatalog] }

Talks ==
  { <<"f", "e", "d", "o", "r", "a", SP, "t", "i", "p">>,
    <<"f", "e", "d", "o", "r", "a", SP, "t", "i", "p", SP, "s">>,
    <<"t", "h", "e">>,
    <<"p", "e", "o", "p", "l", "e", SP, "t", "i", "m", "e">>,
    <<>> }

DeviceIds == {"d1"}
Devices == {"d1", "d2"}
DevicesResults == { [uuid |-> "r1"], [name |-> "n"] }
UsersResults == { [uuid |-> "r1"] }
Timestamps == {1000}
Clock == {2000}
Procs == {"p1", "p2"}

----------------------------------------------------------------------------
(* Python string and list primitives *)

Min(a, b) == IF a < b THEN a ELSE b
Max(a, b) == IF a > b THEN a ELSE b

\* seq[k:]
PySliceFrom(seq, k) ==
  LET n == Len(seq)
      st == IF k < 0 THEN Max(n + k, 0) ELSE Min(k, n)
  IN SubSeq(seq, st + 1, n)

\* seq[:k], k >= 0
PySliceTo(seq, k) == SubSeq(seq, 1, Min(k, Len(seq)))

\* seq[a:b], 0 <= a, 0 <= b
PySlice(seq, a, b) == SubSeq(seq, a + 1, Min(b, Len(seq)))

RECURSIVE lstrip(_)
lstrip(s) == IF s # <<>> /\ Head(s) = SP THEN lstrip(Tail(s)) ELSE s

RECURSIVE rstrip(_)
rstrip(s) ==
  IF s # <<>> /\ s[Len(s)] = SP THEN rstrip(SubSeq(s, 1, Len(s) - 1)) ELSE s

\* str.strip()
strip(s) == rstrip(lstrip(s))

\* str.split(): the whitespace-separated words of s; cur is the word being read
RECURSIVE split_loop(_, _, _)
split_loop(s, cur, acc) ==
  IF s = <<>> THEN (IF cur = <<>> THEN acc ELSE Append(acc, cur))
  ELSE IF Head(s) = SP
       THEN split_loop(Tail(s), <<>>, IF cur = <<>> THEN acc ELSE Append(acc, cur))
       ELSE split_loop(Tail(s), Append(cur, Head(s)), acc)

split(s) == split_loop(s, <<>>, <<>>)

\* ' '.join(words)
RECURSIVE join(_)
join(words) ==
  IF words = <<>> THEN <<>>
  ELSE IF Len(words) = 1 THEN words[1]
  ELSE words[1] \o <<SP>> \o join(Tail(words))

----------------------------------------------------------------------------
(* DatabaseHandler.__init__ *)

backslide == 4
transcript_expiration_time == 600
NONE == -1

empty_transcript ==
  [text |-> <<>>, timestamp |-> -1, is_final |-> FALSE, uuid |-> -1]

----------------------------------------------------------------------------
(* The users collection: a sequence of documents.  find_one and update_one *)
(* act on the first document that matches the filter.                      *)

RECURSIVE first_match(_, _, _)
first_match(coll, user_id, i) ==
  IF i > Len(coll) THEN 0
  ELSE IF coll[i].user_id = user_id THEN i
  ELSE first_match(coll, user_id, i + 1)

\* index of the first document of user_id, 0 when there is none
find_index(coll, user_id) == first_match(coll, user_id, 1)

get_user(coll, user_id) == coll[find_index(coll, user_id)]

new_user(user_id) ==
  [user_id |-> user_id,
   latest_intermediate_transcript |-> empty_transcript,
   final_transcripts |-> <<>>,
   cse_consumed_transcript_id |-> NONE,
   cse_consumed_transcript_idx |-> 0,
   transcripts |-> <<>>,
   cse_results |-> <<>>,
   ui_list |-> <<>>,
   agent_insights_results |-> <<>>]

\* mutant: a document inserted without looking for an existing one
create_user_always(coll, user_id) ==
  Append(coll, new_user(user_id))

create_user_if_not_exists(coll, user_id) ==
  LET need_create == \A i \in 1..Len(coll) : coll[i].user_id # user_id
  IN IF need_create THEN Append(coll, new_user(user_id)) ELSE coll

\* the uuids the collection still holds once user_id's pending intermediate
\* is replaced (every save replaces or resets it)
UsedUuids(coll, user_id) ==
  UNION { {coll[i].cse_consumed_transcript_id}
          \cup (IF coll[i].user_id = user_id THEN {}
                ELSE {coll[i].latest_intermediate_transcript.uuid})
          \cup { coll[i].final_transcripts[j].uuid :
                   j \in 1..Len(coll[i].final_transcripts) } :
          i \in 1..Len(coll) }

\* uuid.uuid4(): a value different from every uuid the collection holds.
\* The least such value is taken, so that states differing only in the
\* names of their uuids coincide.
uuid4(coll, user_id) ==
  CHOOSE n \in 1..(Cardinality(UsedUuids(coll, user_id)) + 1) :
    /\ n \notin UsedUuids(coll, user_id)
    /\ \A m \in 1..(n - 1) : m \in UsedUuids(coll, user_id)

----------------------------------------------------------------------------
(* find_closest_start_word_index *)

RECURSIVE start_word_loop(_, _, _, _)
start_word_loop(text, curr_index, i, latest_stop_index) ==
  IF i >= Len(text) THEN curr_index
  ELSE IF text[i + 1] = SP
       THEN IF i > curr_index THEN latest_stop_index
            ELSE start_word_loop(text, curr_index, i + 1, i)
       ELSE start_word_loop(text, curr_index, i + 1, latest_stop_index)

\* mutant: an index past the end of the text taken back to 0
find_closest_start_word_index_or_zero(text, curr_index) ==
  IF curr_index > Len(text) THEN 0
  ELSE start_word_loop(text, curr_index, 0, 0)

find_closest_start_word_index(text, curr_index) ==
  start_word_loop(text, curr_index, 0, 0)

----------------------------------------------------------------------------
(* purge_old_transcripts_for_user_id: $pull on the field 'transcripts' of  *)
(* every document of the user                                              *)

purge_old_transcripts_for_user_id(coll, user_id, now) ==
  LET transcript_expiration_date == now - transcript_expiration_time
      keep(t) == ~(t.timestamp < transcript_expiration_date)
  IN [i \in 1..Len(coll) |->
        IF coll[i].user_id = user_id
        THEN [coll[i] EXCEPT !.transcripts = SelectSeq(@, keep)]
        ELSE coll[i]]

----------------------------------------------------------------------------
(* save_transcript_for_user *)

\* mutant: the pending intermediate left in place by a final save
push_final_keep_intermediate(user, transcript) ==
  [user EXCEPT !.final_transcripts = Append(@, transcript)]

push_final(user, transcript) ==
  [user EXCEPT !.final_transcripts = Append(@, transcript),
               !.latest_intermediate_transcript = empty_transcript]

\* mutant: the test on the marker inverted
set_marker_if_set(user, transcript) ==
  IF user.cse_consumed_transcript_id # NONE
  THEN [user EXCEPT !.cse_consumed_transcript_id = transcript.uuid]
  ELSE user

\* mutant: the marker moved to every final saved
set_marker_always(user, transcript) ==
  [user EXCEPT !.cse_consumed_transcript_id = transcript.uuid]

set_marker_if_none(user, transcript) ==
  IF user.cse_consumed_transcript_id = NONE
  THEN [user EXCEPT !.cse_consumed_transcript_id = transcript.uuid]
  ELSE user

set_intermediate(user, transcript) ==
  [user EXCEPT !.latest_intermediate_transcript = transcript]

\* update_one: change the first document of user_id, none when absent
update_user(coll, user_id, new_doc) ==
  LET k == find_index(coll, user_id)
  IN IF k = 0 THEN coll ELSE [coll EXCEPT ![k] = new_doc]

\* lines 120-149: what the call does once the text is known not to be empty
store_transcript(coll, user_id, text, timestamp, is_final, now) ==
  LET c1 == create_user_if_not_exists(coll, user_id)
      transcript == [user_id |-> user_id, text |-> text,
                     timestamp |-> timestamp, is_final |-> is_final,
                     uuid |-> uuid4(c1, user_id)]
      c2 == purge_old_transcripts_for_user_id(c1, user_id, now)
      user == get_user(c2, user_id)
  IN IF is_final
     THEN update_user(c2, user_id,
                      set_marker_if_none(push_final(user, transcript), transcript))
     ELSE update_user(c2, user_id, set_intermediate(user, transcript))

\* the call without the test of line 118
save_transcript_any_text(coll, user_id, text, timestamp, is_final, now) ==
  store_transcript(coll, user_id, text, timestamp, is_final, now)

save_transcript_for_user(coll, user_id, text, timestamp, is_final, now) ==
  IF text = <<>> THEN coll
  ELSE store_transcript(coll, user_id, text, timestamp, is_final, now)

----------------------------------------------------------------------------
(* get_new_cse_transcripts_for_user *)

\* mutant: the words taken from the front of the list
backslide_words_from_front(most_recent_final_text, text, start_index) ==
  LET previous_text_to_backslide ==
        most_recent_final_text \o <<SP>> \o PySliceTo(text, start_index)
      backslide_word_list == split(strip(previous_text_to_backslide))
  IN join(PySliceTo(backslide_word_list, backslide))

\* the words re-included in front of the new text
backslide_words(most_recent_final_text, text, start_index) ==
  LET previous_text_to_backslide ==
        most_recent_final_text \o <<SP>> \o PySliceTo(text, start_index)
      backslide_word_list == split(strip(previous_text_to_backslide))
  IN join(PySliceFrom(backslide_word_list,
                      -(backslide - Len(backslide_word_list))))

\* the text given to the transcript the cursor points into
rewritten_text(most_recent_final_text, text, start_index) ==
  LET words_from_start == strip(PySliceFrom(text, start_index))
  IN backslide_words(most_recent_final_text, text, start_index)
       \o <<SP>> \o words_from_start

\* start_index: the stored index, moved to the beginning of a word of text
snapped_start(user, text) ==
  find_closest_start_word_index(text, user.cse_consumed_transcript_idx)

\* position in final_transcripts of the transcript the marker names, 0 when
\* no stored transcript has that uuid
marker_index(user) ==
  IF \E j \in 1..Len(user.final_transcripts) :
       user.final_transcripts[j].uuid = user.cse_consumed_transcript_id
  THEN CHOOSE j \in 1..Len(user.final_transcripts) :
         user.final_transcripts[j].uuid = user.cse_consumed_transcript_id
  ELSE 0

\* the transcript whose uuid is the marker, at position index of the finals
first_final(user, index) ==
  LET t == user.final_transcripts[index]
      start_index == snapped_start(user, t.text)
      most_recent_final_text ==
        IF index > 1 THEN user.final_transcripts[index - 1].text ELSE <<>>
  IN [t EXCEPT !.text = rewritten_text(most_recent_final_text, t.text, start_index)]

\* the loop over final_transcripts; found: first_transcript != None
RECURSIVE finals_loop(_, _, _, _)
finals_loop(user, index, found, unconsumed) ==
  IF index > Len(user.final_transcripts) THEN unconsumed
  ELSE LET t == user.final_transcripts[index]
       IN IF t.uuid = user.cse_consumed_transcript_id
          THEN LET first_transcript == first_final(user, index)
               IN finals_loop(user, index + 1, TRUE,
                    IF first_transcript.text # <<>>
                    THEN Append(unconsumed, first_transcript) ELSE unconsumed)
          ELSE finals_loop(user, index + 1, found,
                    IF found THEN Append(unconsumed, t) ELSE unconsumed)

\* marker -1: the part of the intermediate after the stored index
intermediate_branch(user) ==
  LET t == user.latest_intermediate_transcript
      start_index == snapped_start(user, t.text)
      most_recent_final_text ==
        IF Len(user.final_transcripts) > 0
        THEN user.final_transcripts[Len(user.final_transcripts)].text ELSE <<>>
  IN [unconsumed |->
        IF (Len(t.text) - 1) > start_index
        THEN << [t EXCEPT !.text =
                   rewritten_text(most_recent_final_text, t.text, start_index)] >>
        ELSE <<>>,
      index_offset |-> start_index]

\* mutant: a marker that names no stored transcript handled as marker -1
marker_branch_or_none(user) ==
  IF marker_index(user) = 0 THEN intermediate_branch(user)
  ELSE LET finals == finals_loop(user, 1, FALSE, <<>>)
       IN [unconsumed |->
             IF user.latest_intermediate_transcript.text # <<>>
             THEN Append(finals, user.latest_intermediate_transcript)
             ELSE finals,
           index_offset |-> 0]

\* mutant: the intermediate returned before the finals
marker_branch_intermediate_first(user) ==
  LET finals == finals_loop(user, 1, FALSE, <<>>)
      unconsumed ==
        IF user.latest_intermediate_transcript.text # <<>>
        THEN <<user.latest_intermediate_transcript>> \o finals
        ELSE finals
  IN [unconsumed |-> unconsumed, index_offset |-> 0]

\* marker set: the finals from the marker on, then the intermediate
marker_branch(user) ==
  LET finals == finals_loop(user, 1, FALSE, <<>>)
      unconsumed ==
        IF user.latest_intermediate_transcript.text # <<>>
        THEN Append(finals, user.latest_intermediate_transcript)
        ELSE finals
  IN [unconsumed |-> unconsumed, index_offset |-> 0]

\* mutant: the index taken from the first item returned
unconsumed_transcripts_first_item(user) ==
  LET b == IF user.cse_consumed_transcript_id # NONE
           THEN marker_branch(user) ELSE intermediate_branch(user)
      n == Len(b.unconsumed)
  IN [unconsumed |-> b.unconsumed,
      new_index |-> IF n > 0 THEN Len(b.unconsumed[1].text) + b.index_offset
                    ELSE 0]

\* the list returned and the index stored, from the document read
unconsumed_transcripts(user) ==
  LET b == IF user.cse_consumed_transcript_id # NONE
           THEN marker_branch(user) ELSE intermediate_branch(user)
      n == Len(b.unconsumed)
  IN [unconsumed |-> b.unconsumed,
      new_index |-> IF n > 0 THEN Len(b.unconsumed[n].text) + b.index_offset
                    ELSE 0]

\* the update step: $set of the two cursor fields
store_cursor(user, new_index) ==
  [user EXCEPT !.cse_consumed_transcript_id = NONE,
               !.cse_consumed_transcript_idx = new_index]

\* mutant: the update made without the user_id filter
write_cursor_all(coll, user_id, new_index) ==
  [i \in 1..Len(coll) |-> store_cursor(coll[i], new_index)]

write_cursor(coll, user_id, new_index) ==
  LET k == find_index(coll, user_id)
  IN IF k = 0 THEN coll
     ELSE [coll EXCEPT ![k] = store_cursor(coll[k], new_index)]

\* mutant: the document read again at the time of the write
user_reread(coll, loc) == get_user(coll, loc.user_id)

\* the document a call computes from: the one it read when it started
\* (loc.user), whatever the collection holds by the time it writes
user_read(coll, loc) == loc.user

\* mutant: the rewritten text stored back into the final transcript
get_new_cse_transcripts_in_place(coll, user_id) ==
  LET c1 == create_user_if_not_exists(coll, user_id)
      user == get_user(c1, user_id)
      r == unconsumed_transcripts(user)
      k == marker_index(user)
      c2 == IF user.cse_consumed_transcript_id # NONE /\ k # 0
            THEN update_user(c1, user_id,
                   [user EXCEPT !.final_transcripts[k] = first_final(user, k)])
            ELSE c1
  IN [coll |-> write_cursor(c2, user_id, r.new_index), transcripts |-> r.unconsumed]

get_new_cse_transcripts_for_user(coll, user_id) ==
  LET c1 == create_user_if_not_exists(coll, user_id)
      r == unconsumed_transcripts(get_user(c1, user_id))
  IN [coll |-> write_cursor(c1, user_id, r.new_index), transcripts |-> r.unconsumed]

\* get_new_cse_transcripts_for_user_as_string: the texts, space-separated
RECURSIVE concat_texts(_)
concat_texts(transcripts) ==
  IF transcripts = <<>> THEN <<>>
  ELSE transcripts[1].text \o <<SP>> \o concat_texts(Tail(transcripts))

as_string(transcripts) == strip(concat_texts(transcripts))

\* delete_all_transcripts_for_user
delete_all_transcripts_for_user(coll, user_id) ==
  LET k == find_index(coll, user_id)
  IN IF k = 0 THEN coll ELSE [coll EXCEPT ![k].final_transcripts = <<>>]

----------------------------------------------------------------------------
(* CSE results and UI devices *)

\* add_cse_results_for_user: $push with $each
add_cse_results_for_user(coll, user_id, results) ==
  LET k == find_index(coll, user_id)
  IN IF k = 0 THEN coll ELSE [coll EXCEPT ![k].cse_results = @ \o results]

has_device(user, device_id) ==
  \E j \in 1..Len(user.ui_list) : user.ui_list[j].device_id = device_id

add_ui_device_to_user_if_not_exists(coll, user_id, device_id) ==
  LET c1 == create_user_if_not_exists(coll, user_id)
      k == find_index(c1, user_id)
      need_add == ~has_device(c1[k], device_id)
      ui_object == [device_id |-> device_id, consumed_cse_result_ids |-> <<>>,
                    consumed_agent_insights_result_ids |-> <<>>]
  IN IF need_add /\ \A j \in 1..Len(c1[k].ui_list) : c1[k].ui_list[j] # ui_object
     THEN [c1 EXCEPT ![k].ui_list = Append(@, ui_object)]
     ELSE c1

\* find_one({"user_id": ..., "ui_list.device_id": ...}): index of the first
\* document of the user that has the device, 0 when there is none
RECURSIVE first_with_device(_, _, _, _)
first_with_device(coll, user_id, device_id, i) ==
  IF i > Len(coll) THEN 0
  ELSE IF coll[i].user_id = user_id /\ has_device(coll[i], device_id) THEN i
  ELSE first_with_device(coll, user_id, device_id, i + 1)

get_consumed_cse_result_ids_for_user_device(coll, user_id, device_id) ==
  LET k == first_with_device(coll, user_id, device_id, 1)
  IN IF k = 0 THEN <<>> ELSE coll[k].ui_list[1].consumed_cse_result_ids

in_list(x, list) == \E j \in 1..Len(list) : list[j] = x

\* $addToSet on the first element of ui_list with the device id
RECURSIVE add_to_first_device(_, _, _, _)
add_to_first_device(ui_list, device_id, result_uuid, j) ==
  IF j > Len(ui_list) THEN ui_list
  ELSE IF ui_list[j].device_id = device_id
       THEN IF in_list(result_uuid, ui_list[j].consumed_cse_result_ids)
            THEN ui_list
            ELSE [ui_list EXCEPT ![j].consumed_cse_result_ids =
                                   Append(@, result_uuid)]
       ELSE add_to_first_device(ui_list, device_id, result_uuid, j + 1)

\* update_many: every document of the user that has the device
add_consumed_cse_result_id_for_user_device(coll, user_id, device_id, result_uuid) ==
  [i \in 1..Len(coll) |->
     IF coll[i].user_id = user_id /\ has_device(coll[i], device_id)
     THEN [coll[i] EXCEPT !.ui_list =
             add_to_first_device(@, device_id, result_uuid, 1)]
     ELSE coll[i]]

\* the loop over the results read; already_consumed_ids is read once before it
RECURSIVE results_loop(_, _, _, _, _, _, _)
results_loop(coll, user_id, device_id, results, already_consumed_ids, should_consume, new_results) ==
  IF results = <<>> THEN [coll |-> coll, new_results |-> new_results]
  ELSE LET res == Head(results)
       IN IF "uuid" \in DOMAIN res /\ ~in_list(res.uuid, already_consumed_ids)
          THEN results_loop(
                 IF should_consume
                 THEN add_consumed_cse_result_id_for_user_device(
                        coll, user_id, device_id, res.uuid)
                 ELSE coll,
                 user_id, device_id, Tail(results), already_consumed_ids,
                 should_consume, Append(new_results, res))
          ELSE results_loop(coll, user_id, device_id, Tail(results),
                            already_consumed_ids, should_consume, new_results)

get_cse_results_for_user_device(coll, user_id, device_id, should_consume, include_consumed) ==
  LET c1 == add_ui_device_to_user_if_not_exists(coll, user_id, device_id)
      results == get_user(c1, user_id).cse_results
      already_consumed_ids ==
        IF include_consumed THEN <<>>
        ELSE get_consumed_cse_result_ids_for_user_device(c1, user_id, device_id)
  IN results_loop(c1, user_id, device_id, results, already_consumed_ids,
                  should_consume, <<>>)

----------------------------------------------------------------------------
(* ContextualSearchEngine: find_combinations *)

max_window_size == 3

\* the inner loop: i in range(len(words) - window_size + 1)
RECURSIVE combinations_of_size(_, _, _, _)
combinations_of_size(words, window_size, i, combinations_set) ==
  IF i >= Len(words) - window_size + 1 THEN combinations_set
  ELSE combinations_of_size(words, window_size, i + 1,
         combinations_set \cup {join(PySlice(words, i, i + window_size))})

\* the outer loop: window_size in range(first, stop)
RECURSIVE combinations_loop(_, _, _, _)
combinations_loop(words, window_size, stop, combinations_set) ==
  IF window_size >= stop THEN combinations_set
  ELSE combinations_loop(words, window_size + 1, stop,
         combinations_of_size(words, window_size, 0, combinations_set))

\* the loop over the sizes started at 1
find_combinations_from_one(words, window_size) ==
  combinations_loop(words, 1, window_size + 1, {})

find_combinations(words, window_size) ==
  combinations_loop(words, 2, window_size + 1, {})

----------------------------------------------------------------------------
(* ContextualSearchEngine: characters, str.lower, str.replace, pascal_to_words *)

LowerLetters ==
  <<"a", "b", "c", "d", "e", "f", "g", "h", "i", "j", "k", "l", "m",
    "n", "o", "p", "q", "r", "s", "t", "u", "v", "w", "x", "y", "z">>

UpperLetters ==
  <<"A", "B", "C", "D", "E", "F", "G", "H", "I", "J", "K", "L", "M",
    "N", "O", "P", "Q", "R", "S", "T", "U", "V", "W", "X", "Y", "Z">>

is_lower(c) == \E i \in 1..Len(LowerLetters) : LowerLetters[i] = c
is_upper(c) == \E i \in 1..Len(UpperLetters) : UpperLetters[i] = c

lower_char(c) ==
  IF is_upper(c)
  THEN LowerLetters[CHOOSE i \in 1..Len(UpperLetters) : UpperLetters[i] = c]
  ELSE c

\* str.lower()
lower(s) == [i \in 1..Len(s) |-> lower_char(s[i])]

\* str.replace(c, "")
remove_char(s, c) == LET keep(x) == x # c IN SelectSeq(s, keep)

\* the end (exclusive, 0-based) of the longest run from index p on of
\* characters of one kind
RECURSIVE run_end(_, _, _)
run_end(s, p, upper) ==
  IF p < Len(s) /\ (IF upper THEN is_upper(s[p + 1]) ELSE is_lower(s[p + 1]))
  THEN run_end(s, p + 1, upper)
  ELSE p

\* re.findall(r'[A-Z]?[a-z]+|[A-Z]+(?=[A-Z]|$)', s) from index p on
RECURSIVE findall_words(_, _, _)
findall_words(s, p, acc) ==
  IF p >= Len(s) THEN acc
  ELSE LET c == s[p + 1]
       IN IF is_lower(c)
          THEN LET q == run_end(s, p, FALSE)
               IN findall_words(s, q, Append(acc, PySlice(s, p, q)))
          ELSE IF is_upper(c) /\ p + 1 < Len(s) /\ is_lower(s[p + 2])
          THEN LET q == run_end(s, p + 1, FALSE)
               IN findall_words(s, q, Append(acc, PySlice(s, p, q)))
          ELSE IF is_upper(c)
          THEN LET q == run_end(s, p, TRUE)
               IN IF q = Len(s)
                  THEN findall_words(s, q, Append(acc, PySlice(s, p, q)))
                  ELSE IF q - p >= 2
                  THEN findall_words(s, q - 1, Append(acc, PySlice(s, p, q - 1)))
                  ELSE findall_words(s, p + 1, acc)
          ELSE findall_words(s, p + 1, acc)

pascal_to_words(pascal_str) == join(findall_words(pascal_str, 0, <<>>))

\* line 661
searched_entity_of(entity) == remove_char(lower(pascal_to_words(entity)), ":")

----------------------------------------------------------------------------
(* fuzzysearch.find_near_matches, as called at lines 662-669: the matches  *)
(* of subsequence in sequence within the limits, overlapping matches       *)
(* consolidated to the best of each group                                  *)

max_deletions == 1
max_insertions == 1
max_substitutions == 2
max_l_dist == 3

\* a partial alignment: j characters of the subsequence read, with ns
\* substitutions, ni insertions (characters of the sequence skipped) and nd
\* deletions (characters of the subsequence skipped)
alignment_dist(a) == a.ns + a.ni + a.nd

\* the alignments reached by skipping characters of the subsequence
RECURSIVE with_deletions(_, _)
with_deletions(A, m) ==
  LET more == A \cup { [a EXCEPT !.j = @ + 1, !.nd = @ + 1] :
                         a \in { x \in A : /\ x.j < m
                                            /\ x.nd < max_deletions
                                            /\ alignment_dist(x) < max_l_dist } }
  IN IF more = A THEN A ELSE with_deletions(more, m)

\* the alignments after one more character ch of the sequence
align_step(A, subsequence, ch) ==
  LET m == Len(subsequence)
      open == { a \in A : a.j < m }
      matched == { [a EXCEPT !.j = @ + 1] :
                     a \in { x \in open : subsequence[x.j + 1] = ch } }
      substituted == { [a EXCEPT !.j = @ + 1, !.ns = @ + 1] :
                         a \in { x \in open : /\ subsequence[x.j + 1] # ch
                                               /\ x.ns < max_substitutions
                                               /\ alignment_dist(x) < max_l_dist } }
      inserted == { [a EXCEPT !.ni = @ + 1] :
                      a \in { x \in open : /\ x.ni < max_insertions
                                            /\ alignment_dist(x) < max_l_dist } }
  IN with_deletions(matched \cup substituted \cup inserted, m)

min_of(S) == CHOOSE x \in S : \A y \in S : x <= y
max_of(S) == CHOOSE x \in S : \A y \in S : x >= y

\* the matches that start at index start: the sequence is read from there on
RECURSIVE matches_from(_, _, _, _, _, _)
matches_from(subsequence, sequence, start, end, A, acc) ==
  LET done == { a \in A : a.j = Len(subsequence) }
      acc2 == IF done # {} /\ end > start
              THEN acc \cup { [start |-> start, end |-> end,
                               dist |-> min_of({ alignment_dist(a) : a \in done })] }
              ELSE acc
  IN IF A = {} \/ end >= Len(sequence) THEN acc2
     ELSE matches_from(subsequence, sequence, start, end + 1,
                       align_step(A, subsequence, sequence[end + 1]), acc2)

all_near_matches(subsequence, sequence) ==
  LET first == with_deletions({ [j |-> 0, ns |-> 0, ni |-> 0, nd |-> 0] },
                              Len(subsequence))
  IN UNION { matches_from(subsequence, sequence, start, start, first, {}) :
               start \in 0..(Len(sequence) - 1) }

\* b is a boundary between two groups: no match reaches across it
group_boundary(matches, b) == \A x \in matches : ~(x.start < b /\ b < x.end)

\* the group of overlapping matches x belongs to: the matches no boundary
\* separates from x
group_of(matches, x) ==
  { y \in matches :
      \A b \in Min(x.end, y.end)..Max(x.start, y.start) :
        ~group_boundary(matches, b) }

\* the least distance, then the longest
best_in_group(group) ==
  LET d == min_of({ x.dist : x \in group })
      least == { x \in group : x.dist = d }
      len == max_of({ x.end - x.start : x \in least })
  IN { x \in least : x.end - x.start = len }

\* of several best matches of a group the one taken is not specified:
\* tie picks the first or the last of them
pick_best(group, tie) ==
  LET best == best_in_group(group)
      st == IF tie = "first" THEN min_of({ x.start : x \in best })
            ELSE max_of({ x.start : x \in best })
  IN CHOOSE x \in best : x.start = st

\* the set as a list sorted by start
RECURSIVE sorted_matches(_)
sorted_matches(matches) ==
  IF matches = {} THEN <<>>
  ELSE LET st == min_of({ x.start : x \in matches })
           x == CHOOSE y \in matches : y.start = st
       IN <<x>> \o sorted_matches(matches \ {x})

find_near_matches(subsequence, sequence, tie) ==
  LET matches == all_near_matches(subsequence, sequence)
  IN sorted_matches({ pick_best(group_of(matches, x), tie) : x \in matches })

----------------------------------------------------------------------------
(* ContextualSearchEngine: get_string_freq and custom_fuzzy_search *)

\* some of self.banned_words: of the stop words "the", "and", "a", of the
\* listed words "to", "so", "I"
banned_words ==
  { <<"t", "h", "e">>, <<"a", "n", "d">>, <<"a">>,
    <<"t", "o">>, <<"s", "o">>, <<"I">> }

\* word_frequency.get_word_freq_index, in thousandths: a word of the
\* corpus has its rank over the corpus size, a word not in it the value 1
word_freq_index(word) ==
  IF word \in { <<"t", "h", "e">>, <<"a", "n", "d">>, <<"t", "o">>,
                <<"s", "o">>, <<"a">>, <<"i">> } THEN 0
  ELSE IF word \in { <<"t", "i", "m", "e">>, <<"p", "e", "o", "p", "l", "e">> }
  THEN 10
  ELSE IF word \in { <<"t", "i", "p">>, <<"t", "i", "p", "s">> } THEN 50
  ELSE 1000

RECURSIVE sum_freq(_)
sum_freq(words) ==
  IF words = <<>> THEN 0 ELSE word_freq_index(Head(words)) + sum_freq(Tail(words))

\* np.mean of the words' indexes, kept as their sum and their number
get_string_freq(text) == [sum |-> sum_freq(split(text)), n |-> Len(split(text))]

\* freq < thousandths / 1000; the mean of no word is nan, less than nothing
freq_below(freq, thousandths) == freq.n > 0 /\ freq.sum < thousandths * freq.n

separators == { SP, "\n", "\r", ",", ":", ";" }

\* lines 634-640: the start moves left over the characters that are no separator
RECURSIVE whole_match_start(_, _)
whole_match_start(full_string, start_idx) ==
  IF start_idx > 0 /\ full_string[start_idx] \notin separators
  THEN whole_match_start(full_string, start_idx - 1)
  ELSE start_idx

\* lines 642-648: the end moves right over the characters that are no separator
RECURSIVE whole_match_end(_, _)
whole_match_end(full_string, end_idx) ==
  IF end_idx < Len(full_string) /\ full_string[end_idx + 1] \notin separators
  THEN whole_match_end(full_string, end_idx + 1)
  ELSE end_idx

\* mutant: the span extended to the left only
get_whole_match_left_only(match_entity, full_string) ==
  PySlice(full_string, whole_match_start(full_string, match_entity.start),
          match_entity.end)

get_whole_match(match_entity, full_string) ==
  PySlice(full_string, whole_match_start(full_string, match_entity.start),
          whole_match_end(full_string, match_entity.end))

count_capitals(text) == Len(SelectSeq(text, is_upper))

has_space(text) == \E i \in 1..Len(text) : text[i] = SP

abs(x) == IF x < 0 THEN -x ELSE x

\* lines 673-707: the filters a match of the fuzzy search has to pass
\* the filters with a match distance of 1 already dropped
true_match_same_length(to_search, searched_entity, match_entity) ==
  LET whole_match == get_whole_match(match_entity, searched_entity)
      match_distance == abs(Len(whole_match) - Len(to_search))
      string_freq_index == get_string_freq(remove_char(whole_match, ":"))
  IN /\ ~(match_distance >= 1)
     /\ ~(match_entity.dist > 1 /\ freq_below(string_freq_index, 60))
     /\ ~(~has_space(whole_match) /\ count_capitals(whole_match) < 2)
     /\ ~(/\ match_entity.start # 0
          /\ searched_entity[match_entity.start] # SP)

\* mutant: whole matches two characters off still taken
true_match_two_off(to_search, searched_entity, match_entity) ==
  LET whole_match == get_whole_match(match_entity, searched_entity)
      match_distance == abs(Len(whole_match) - Len(to_search))
      string_freq_index == get_string_freq(remove_char(whole_match, ":"))
  IN /\ ~(match_distance >= 3)
     /\ ~(match_entity.dist > 1 /\ freq_below(string_freq_index, 60))
     /\ ~(~has_space(whole_match) /\ count_capitals(whole_match) < 2)
     /\ ~(/\ match_entity.start # 0
          /\ searched_entity[match_entity.start] # SP)

\* mutant: the test of the start of a word left out
true_match_any_start(to_search, searched_entity, match_entity) ==
  LET whole_match == get_whole_match(match_entity, searched_entity)
      match_distance == abs(Len(whole_match) - Len(to_search))
      string_freq_index == get_string_freq(remove_char(whole_match, ":"))
  IN /\ ~(match_distance >= 2)
     /\ ~(match_entity.dist > 1 /\ freq_below(string_freq_index, 60))
     /\ ~(~has_space(whole_match) /\ count_capitals(whole_match) < 2)

true_match(to_search, searched_entity, match_entity) ==
  LET whole_match == get_whole_match(match_entity, searched_entity)
      match_distance == abs(Len(whole_match) - Len(to_search))
      string_freq_index == get_string_freq(remove_char(whole_match, ":"))
  IN /\ ~(match_distance >= 2)
     /\ ~(match_entity.dist > 1 /\ freq_below(string_freq_index, 60))
     /\ ~(~has_space(whole_match) /\ count_capitals(whole_match) < 2)
     /\ ~(/\ match_entity.start # 0
          /\ searched_entity[match_entity.start] # SP)

\* the matches of one entity that pass, as the accepted list records them
matches_of_entity(to_search, idx, entity, tie) ==
  LET searched_entity == searched_entity_of(entity)
      match_entities == find_near_matches(lower(to_search), searched_entity, tie)
      passes(match_entity) == true_match(to_search, searched_entity, match_entity)
      record(match_entity) ==
        [idx |-> idx, start |-> match_entity.start, end |-> match_entity.end,
         dist |-> match_entity.dist, searched_entity |-> searched_entity,
         whole_match |-> get_whole_match(match_entity, searched_entity)]
      passed == SelectSeq(match_entities, passes)
  IN [i \in 1..Len(passed) |-> record(passed[i])]

\* lines 659-707: the loop over entities, a list of (idx, entity)
RECURSIVE entities_loop(_, _, _, _, _)
entities_loop(to_search, entities, tie, k, accepted) ==
  IF k > Len(entities) THEN accepted
  ELSE entities_loop(to_search, entities, tie, k + 1,
         accepted \o matches_of_entity(to_search, entities[k][1],
                                        entities[k][2], tie))

idx_of(accepted) == [i \in 1..Len(accepted) |-> accepted[i].idx]

\* what a call returns: the list matches; accepted are the matches behind
\* it, scanned the number of entities searched, error what it raised
\* what a call returns: matches is the returned list of ids; accepted, scanned
\* (the titles the fuzzy search ran on), error (the exception raised) and
\* reject (the early return taken) record how the call went
NoMatches ==
  [matches |-> <<>>, accepted |-> <<>>, scanned |-> 0, error |-> "", reject |-> ""]

Rejected(reject) == [NoMatches EXCEPT !.reject = reject]

\* lines 612-619: the filler-word test, num_banned / len(...) >= 0.4
num_banned_of(individual_words) ==
  LET banned(word) == word \in banned_words
  IN Len(SelectSeq(individual_words, banned))

\* the filler-word test with > 0.4
more_than_two_fifths_banned(individual_words) ==
  5 * num_banned_of(individual_words) > 2 * Len(individual_words)

too_many_banned(individual_words) ==
  5 * num_banned_of(individual_words) >= 2 * Len(individual_words)

\* lines 658-709: the search proper
search_entities(to_search, entities, tie) ==
  LET accepted == entities_loop(to_search, entities, tie, 1, <<>>)
  IN [matches |-> idx_of(accepted), accepted |-> accepted,
      scanned |-> Len(entities), error |-> "", reject |-> ""]

\* the call without the test of line 610
custom_fuzzy_search_any_length(to_search, entities, tie) ==
  IF split(to_search) = <<>>
  THEN [NoMatches EXCEPT !.error = "ZeroDivisionError"]
  ELSE IF too_many_banned(split(to_search)) THEN Rejected("filler")
  ELSE IF freq_below(get_string_freq(to_search), 40) THEN Rejected("rarity")
  ELSE search_entities(to_search, entities, tie)

custom_fuzzy_search(to_search, entities, tie) ==
  IF Len(to_search) < 8 THEN Rejected("length")
  ELSE IF split(to_search) = <<>>
  THEN [NoMatches EXCEPT !.error = "ZeroDivisionError"]
  ELSE IF too_many_banned(split(to_search)) THEN Rejected("filler")
  ELSE IF freq_below(get_string_freq(to_search), 40) THEN Rejected("rarity")
  ELSE search_entities(to_search, entities, tie)

\* list(enumerate(titles))
RECURSIVE enumerate(_, _)
enumerate(list, k) ==
  IF k > Len(list) THEN <<>>
  ELSE << <<k - 1, list[k]>> >> \o enumerate(list, k + 1)

----------------------------------------------------------------------------
(* ContextualSearchEngine: fuzzy_search_on_user_custom_data                *)
(* self.custom_data maps a user id to a pandas DataFrame, modelled by its  *)
(* columns, or to the dict() of line 337. A Python dict is the sequence of *)
(* its items in insertion order.                                           *)

\* DataFrame.empty: an axis of length 0
DataFrame_empty(data) ==
  \/ DOMAIN data.columns = {}
  \/ \A c \in DOMAIN data.columns : data.columns[c] = <<>>

\* the test without lines 504-507
does_user_have_custom_data_loaded_key_only(user_id) ==
  user_id \in DOMAIN custom_data

does_user_have_custom_data_loaded(user_id) ==
  /\ user_id \in DOMAIN custom_data
  /\ custom_data[user_id].kind = "DataFrame"
  /\ ~DataFrame_empty(custom_data[user_id])

dict_has(d, key) == \E i \in 1..Len(d) : d[i].key = key

\* d[key] = value, always as a new item
dict_set_appending(d, key, value) ==
  Append(d, [key |-> key, value |-> value])

\* d[key] = value
dict_set(d, key, value) ==
  IF dict_has(d, key)
  THEN [i \in 1..Len(d) |->
          IF d[i].key = key THEN [key |-> key, value |-> value] ELSE d[i]]
  ELSE Append(d, [key |-> key, value |-> value])

\* d.pop(key)
dict_pop(d, key) ==
  LET others(item) == item.key # key
  IN SelectSeq(d, others)

\* lines 563-580: the entry of catalog row mi (counted from 0)
response_of(data, mi) ==
  LET columns == data.columns
      descriptions == columns["description"]
      optional(name) ==
        IF name \in DOMAIN columns
        THEN IF columns[name][mi + 1] # None /\ columns[name][mi + 1] # NaN
             THEN columns[name][mi + 1] ELSE None
        ELSE None
  IN [name |-> columns["title"][mi + 1],
      summary |-> IF descriptions[mi + 1] # NaN
                  THEN descriptions[mi + 1] ELSE None,
      image_url |-> optional("image_url"),
      url |-> optional("url")]

\* lines 561-580: the loop over matches_idxs
RECURSIVE build_response(_, _, _, _)
build_response(data, matches_idxs, k, matches) ==
  IF k > Len(matches_idxs) THEN matches
  ELSE build_response(data, matches_idxs, k + 1,
         dict_set(matches, data.columns["title"][matches_idxs[k] + 1],
                  response_of(data, matches_idxs[k])))

unreasonable_num == 4

\* the removal with `if` in place of `while`
RECURSIVE remove_random_false_positives_once(_, _)
remove_random_false_positives_once(d, max_keys) ==
  IF Len(d) > max_keys
  THEN { dict_pop(d, d[i].key) : i \in 1..Len(d) }
  ELSE {d}

\* lines 586-588: random.choice may pick any key, so this is the set of the
\* dicts the loop can leave
RECURSIVE remove_random_false_positives(_, _)
remove_random_false_positives(d, max_keys) ==
  IF Len(d) > max_keys
  THEN UNION { remove_random_false_positives(dict_pop(d, d[i].key), max_keys) :
               i \in 1..Len(d) }
  ELSE {d}

\* the orders in which `for combination in word_combos` may visit a set
orders_of(set) ==
  { order \in [1..Cardinality(set) -> set] :
      \A i, j \in 1..Cardinality(set) : order[i] = order[j] => i = j }

\* lines 549-557: matches_idxs for one order of the combinations
RECURSIVE extend_matches(_, _, _, _)
extend_matches(curr_matches, order, k, matches_idxs) ==
  IF k > Len(order) THEN matches_idxs
  ELSE extend_matches(curr_matches, order, k + 1,
                      matches_idxs \o curr_matches[order[k]])

Returned(matches) == [matches |-> matches, error |-> ""]
Raised(error) == [matches |-> <<>>, error |-> error]

\* lines 514-592, for a user whose data passed the test of line 511: the set
\* of the results the call can give
search_loaded_data(data, talk, tie) ==
  IF ~({"title", "description"} \subseteq DOMAIN data.columns)
  THEN { Raised("KeyError") }
  ELSE
    LET words == split(talk)
        titles == data.columns["title"]
        word_combos == find_combinations(words, max_window_size)
        searched ==
          { <<combination,
              custom_fuzzy_search(combination, enumerate(titles, 1), tie).matches>> :
            combination \in word_combos }
        curr_matches ==
          [combination \in word_combos |->
             (CHOOSE pair \in searched : pair[1] = combination)[2]]
        responses ==
          { build_response(data, extend_matches(curr_matches, order, 1, <<>>),
                           1, <<>>) : order \in orders_of(word_combos) }
    IN { Returned(matches) :
           matches \in UNION { remove_random_false_positives(d, unreasonable_num) :
                               d \in responses } }

fuzzy_search_on_user_custom_data(user_id, talk, tie) ==
  IF ~does_user_have_custom_data_loaded(user_id)
  THEN { Returned(<<>>) }
  ELSE search_loaded_data(custom_data[user_id], talk, tie)

----------------------------------------------------------------------------
(* word_frequency: find_low_freq_words *)

google_lines == 333334
norvig_lines == 30000

\* i > low_freq_constant_google, which is 0.0922 * google_lines (lines 9, 13)
above_google_constant(i) == i * 5000 > 461 * google_lines

\* i > low_freq_line_constant_norvig, 0.901 * norvig_lines (lines 10, 14)
above_norvig_constant(i) == i * 1000 > 901 * norvig_lines

\* i >= low_freq_line_constant_norvig
from_norvig_constant(i) == i * 1000 >= 901 * norvig_lines

\* index[word][0]; KeyError when the word is not a key
first_row(index, word) ==
  IF \E e \in index : e.word = word
  THEN [error |-> "", row |-> (CHOOSE e \in index : e.word = word).rows[1]]
  ELSE [error |-> "KeyError", row |-> NONE]

\* lines 33-54 with >= in the test of line 52
is_low_freq_from_norvig_constant(word) ==
  LET google == first_row(idx_google_dict_word_freq, word)
      norvig == first_row(idx_norvig_dict_word_freq, word)
      found_in_norvig == norvig.error = ""
  IN IF google.error = "KeyError" THEN TRUE
     ELSE IF above_google_constant(google.row) THEN TRUE
     ELSE found_in_norvig /\ from_norvig_constant(norvig.row)

\* lines 33-54: whether the lower-cased word is appended
is_low_freq(word) ==
  LET google == first_row(idx_google_dict_word_freq, word)
      norvig == first_row(idx_norvig_dict_word_freq, word)
      found_in_norvig == norvig.error = ""
  IN IF google.error = "KeyError" THEN TRUE
     ELSE IF above_google_constant(google.row) THEN TRUE
     ELSE found_in_norvig /\ above_norvig_constant(norvig.row)

RECURSIVE low_freq_loop(_, _)
low_freq_loop(words, low_freq_words) ==
  IF words = <<>> THEN low_freq_words
  ELSE LET word == lower(Head(words))
       IN low_freq_loop(Tail(words),
            IF is_low_freq(word) THEN Append(low_freq_words, word)
            ELSE low_freq_words)

\* both KeyErrors are caught (lines 37, 46), so the call raises nothing
find_low_freq_words(words) ==
  [low_freq_words |-> low_freq_loop(words, <<>>), error |-> ""]

----------------------------------------------------------------------------
(* What a caller sees of the last call, and the calls made so far *)

\* engine: the last call made to the search engine, its arguments and what it
\* returned; before the call, op is "" and args are the arguments to come
NoCall == [op |-> "", args |-> <<>>, result |-> <<>>]

\* hist: the last `window` calls, oldest first; of each call its operation,
\* its user, the is_final argument and whether it returned nothing
Push(h, call) ==
  LET h2 == Append(h, call)
  IN IF Len(h2) > window THEN Tail(h2) ELSE h2

Call(op, user_id, is_final, empty) ==
  [op |-> op, user_id |-> user_id, is_final |-> is_final, empty |-> empty]

\* where a consume call cut the transcript the cursor points into:
\* text is that transcript's stored text, start_index the snapped index,
\* new_text the part of text the call returned (after the backslide words)
NoCut == [applied |-> FALSE, text |-> <<>>, start_index |-> 0, new_text |-> <<>>]

cut_of(user) ==
  IF user.cse_consumed_transcript_id # NONE
  THEN IF marker_index(user) = 0 THEN NoCut
       ELSE LET text == user.final_transcripts[marker_index(user)].text
                start_index == snapped_start(user, text)
            IN [applied |-> TRUE, text |-> text, start_index |-> start_index,
                new_text |-> strip(PySliceFrom(text, start_index))]
  ELSE LET text == user.latest_intermediate_transcript.text
           start_index == snapped_start(user, text)
       IN IF (Len(text) - 1) > start_index
          THEN [applied |-> TRUE, text |-> text, start_index |-> start_index,
                new_text |-> strip(PySliceFrom(text, start_index))]
          ELSE NoCut

\* obs: the user the last call was made for and what it returned
NoObs ==
  [user_id |-> "", device_id |-> "", ret |-> <<>>, cut |-> NoCut,
   texts |-> <<>>, results |-> <<>>]

ObsFor(user_id) == [NoObs EXCEPT !.user_id = user_id]

texts_of(transcripts) == [i \in 1..Len(transcripts) |-> transcripts[i].text]

ConsumeObs(user, transcripts) ==
  [user_id |-> user.user_id, device_id |-> "", ret |-> as_string(transcripts),
   cut |-> cut_of(user), texts |-> texts_of(transcripts), results |-> <<>>]

\* local[p]: the call process p has in flight or made last: the document it
\* read, what it returned, and whether another call for the same user wrote
\* the cursor between this call's read and its write
NoLocal ==
  [user_id |-> "", user |-> new_user(""), ret |-> <<>>, overlapped |-> FALSE,
   read_at |-> 0]

InitStore ==
  /\ user_collection = <<>>
  /\ hist = <<>>
  /\ obs = NoObs
  /\ pc = [p \in Procs |-> "idle"]
  /\ local = [p \in Procs |-> NoLocal]
  /\ custom_data = <<>>
  /\ journal = <<>>
  /\ engine = NoCall

finals_of(coll, user_id) ==
  IF find_index(coll, user_id) = 0 THEN <<>>
  ELSE get_user(coll, user_id).final_transcripts

\* the number of final transcripts, and of results, in the whole collection
RECURSIVE total_finals(_)
total_finals(coll) ==
  IF coll = <<>> THEN 0
  ELSE Len(Head(coll).final_transcripts) + total_finals(Tail(coll))

RECURSIVE total_results(_)
total_results(coll) ==
  IF coll = <<>> THEN 0
  ELSE Len(Head(coll).cse_results) + total_results(Tail(coll))

----------------------------------------------------------------------------
(* The calls, each made as a whole *)

SaveTranscript(user_id, text, timestamp, is_final, now) ==
  /\ is_final => Len(finals_of(user_collection, user_id)) < MaxFinals
  /\ user_collection' =
       save_transcript_for_user(user_collection, user_id, text, timestamp,
                                is_final, now)
  /\ hist' = Push(hist, Call("save", user_id, is_final, TRUE))
  /\ obs' = ObsFor(user_id)
  /\ UNCHANGED <<window, pc, local, custom_data, engine, journal>>

Consume(user_id) ==
  LET c1 == create_user_if_not_exists(user_collection, user_id)
      r == get_new_cse_transcripts_for_user(user_collection, user_id)
  IN /\ user_collection' = r.coll
     /\ hist' = Push(hist, Call("consume", user_id, FALSE,
                                as_string(r.transcripts) = <<>>))
     /\ obs' = ConsumeObs(get_user(c1, user_id), r.transcripts)
     /\ UNCHANGED <<window, pc, local, custom_data, engine, journal>>

DeleteAll(user_id) ==
  /\ user_collection' = delete_all_transcripts_for_user(user_collection, user_id)
  /\ hist' = Push(hist, Call("delete", user_id, FALSE, TRUE))
  /\ obs' = ObsFor(user_id)
  /\ UNCHANGED <<window, pc, local, custom_data, engine, journal>>

AddResults(user_id, results) ==
  /\ total_results(user_collection) + Len(results) <= MaxResults
  /\ user_collection' = add_cse_results_for_user(user_collection, user_id, results)
  /\ hist' = Push(hist, Call("add_results", user_id, FALSE, TRUE))
  /\ obs' = ObsFor(user_id)
  /\ UNCHANGED <<window, pc, local, custom_data, engine, journal>>

GetResults(user_id, device_id, should_consume, include_consumed) ==
  LET r == get_cse_results_for_user_device(user_collection, user_id, device_id,
                                           should_consume, include_consumed)
  IN /\ user_collection' = r.coll
     /\ hist' = Push(hist, Call("get_results", user_id, FALSE,
                                r.new_results = <<>>))
     /\ obs' = [ObsFor(user_id) EXCEPT !.device_id = device_id,
                                      !.results = r.new_results]
     /\ UNCHANGED <<window, pc, local, custom_data, engine, journal>>

----------------------------------------------------------------------------
(* One user, one call at a time *)

Init == InitStore /\ window = 4

Next ==
  \/ \E u \in SeqUsers, text \in Texts, ts \in Timestamps,
        f \in BOOLEAN, now \in Clock :
        SaveTranscript(u, text, ts, f, now)
  \/ \E u \in SeqUsers : Consume(u)

Spec == Init /\ [][Next]_vars

----------------------------------------------------------------------------
(* One user, one call at a time, the stored transcripts deleted at times *)

InitDelete == InitStore /\ window = 4

NextDelete ==
  \/ \E u \in SeqUsers, text \in DeleteTexts, ts \in Timestamps,
        f \in BOOLEAN, now \in Clock :
        SaveTranscript(u, text, ts, f, now)
  \/ \E u \in SeqUsers : Consume(u)
  \/ \E u \in SeqUsers : DeleteAll(u)

SpecDelete == InitDelete /\ [][NextDelete]_vars

----------------------------------------------------------------------------
(* One user, one call at a time, every call kept in the journal: the text  *)
(* saved or the transcripts returned, and the user's document before and   *)
(* after the call                                                          *)

read_user(coll, user_id) ==
  get_user(create_user_if_not_exists(coll, user_id), user_id)

\* read_at: the number of calls made before this call read the document
Entry(op, text, is_final, transcripts, cut, before, after, read_at) ==
  [op |-> op, text |-> text, is_final |-> is_final, read_at |-> read_at,
   texts |-> texts_of(transcripts), ret |-> as_string(transcripts),
   finals |-> Len(SelectSeq(transcripts, LAMBDA t : t.is_final)),
   cut |-> cut, before |-> before, after |-> after]

SaveFlow(user_id, text, timestamp, is_final, now) ==
  LET coll == save_transcript_for_user(user_collection, user_id, text,
                                       timestamp, is_final, now)
  IN /\ Len(journal) < MaxCalls
     /\ user_collection' = coll
     /\ journal' = Append(journal,
                          Entry("save", text, is_final, <<>>, NoCut,
                                read_user(user_collection, user_id),
                                get_user(coll, user_id), Len(journal)))
     /\ obs' = ObsFor(user_id)
     /\ UNCHANGED <<hist, window, pc, local, custom_data, engine>>

ConsumeFlow(user_id) ==
  LET user == read_user(user_collection, user_id)
      r == get_new_cse_transcripts_for_user(user_collection, user_id)
  IN /\ Len(journal) < MaxCalls
     /\ user_collection' = r.coll
     /\ journal' = Append(journal,
                          Entry("consume", <<>>, FALSE, r.transcripts,
                                cut_of(user), user, get_user(r.coll, user_id),
                                Len(journal)))
     /\ obs' = ConsumeObs(user, r.transcripts)
     /\ UNCHANGED <<hist, window, pc, local, custom_data, engine>>

InitFlow == InitStore /\ window = 0

NextFlow ==
  \/ \E u \in SeqUsers, text \in FlowTexts, ts \in Timestamps,
        f \in BOOLEAN, now \in Clock :
        SaveFlow(u, text, ts, f, now)
  \/ \E u \in SeqUsers : ConsumeFlow(u)

SpecFlow == InitFlow /\ [][NextFlow]_vars

----------------------------------------------------------------------------
(* One user, one call at a time, some of the saves with the empty text *)

InitEmpty == InitStore /\ window = 2

NextEmpty ==
  \/ \E u \in SeqUsers, text \in EmptyTexts, ts \in Timestamps,
        f \in BOOLEAN, now \in Clock :
        SaveTranscript(u, text, ts, f, now)
  \/ \E u \in SeqUsers : Consume(u)
  \/ \E u \in SeqUsers : DeleteAll(u)

SpecEmpty == InitEmpty /\ [][NextEmpty]_vars

----------------------------------------------------------------------------
(* Users with two devices: results added and read with the default flags *)

InitDevices == InitStore /\ window = 2

NextDevices ==
  \/ \E u \in UserIds, res \in DevicesResults : AddResults(u, <<res>>)
  \/ \E u \in UserIds, d \in Devices : GetResults(u, d, TRUE, FALSE)

SpecDevices == InitDevices /\ [][NextDevices]_vars

----------------------------------------------------------------------------
(* find_combinations applied to word lists *)

\* the lists of at most n words
RECURSIVE WordLists(_)
WordLists(n) ==
  IF n = 0 THEN {<<>>}
  ELSE WordLists(n - 1)
         \cup {Append(ws, w) : ws \in {l \in WordLists(n - 1) : Len(l) = n - 1},
                                w \in WindowWords}

FindCombinations(words, window_size) ==
  /\ engine' = [op |-> "find_combinations", args |-> <<words, window_size>>,
                result |-> find_combinations(words, window_size)]
  /\ UNCHANGED <<user_collection, hist, window, obs, pc, local, custom_data,
               journal>>

InitWindows == InitStore /\ window = 0

NextWindows ==
  \E words \in WordLists(MaxWords), window_size \in 1..(max_window_size + 1) :
    FindCombinations(words, window_size)

SpecWindows == InitWindows /\ [][NextWindows]_vars

----------------------------------------------------------------------------
(* custom_fuzzy_search applied to a candidate and the titles of a catalog: *)
(* the arguments are drawn at the start, the call is made once             *)

CustomFuzzySearch ==
  /\ engine.op = ""
  /\ engine' = [op |-> "custom_fuzzy_search", args |-> engine.args,
                result |-> custom_fuzzy_search(engine.args[1],
                                               enumerate(engine.args[2], 1),
                                               engine.args[3])]
  /\ UNCHANGED <<user_collection, hist, window, obs, pc, local, custom_data,
               journal>>

InitFuzzy ==
  /\ user_collection = <<>> /\ hist = <<>> /\ obs = NoObs /\ window = 0
  /\ pc = [p \in Procs |-> "idle"] /\ local = [p \in Procs |-> NoLocal]
  /\ custom_data = <<>>
  /\ journal = <<>>
  /\ \E to_search \in Candidates, titles \in Catalogs, tie \in Ties :
       engine = [op |-> "", args |-> <<to_search, titles, tie>>, result |-> <<>>]

NextFuzzy == CustomFuzzySearch

SpecFuzzy == InitFuzzy /\ [][NextFuzzy]_vars

----------------------------------------------------------------------------
(* fuzzy_search_on_user_custom_data: the loaded data, the user and the     *)
(* text are drawn at the start; the call is run on them, any number of     *)
(* times                                                                   *)

FuzzySearch ==
  /\ \E result \in fuzzy_search_on_user_custom_data(engine.args[1],
                                                     engine.args[2],
                                                     engine.args[3]) :
       engine' = [op |-> "fuzzy_search_on_user_custom_data",
                  args |-> engine.args, result |-> result]
  /\ UNCHANGED <<user_collection, hist, window, obs, pc, local, custom_data,
               journal>>

InitSearch ==
  /\ user_collection = <<>> /\ hist = <<>> /\ obs = NoObs /\ window = 0
  /\ pc = [p \in Procs |-> "idle"] /\ local = [p \in Procs |-> NoLocal]
  /\ custom_data \in CustomData
  /\ journal = <<>>
  /\ \E user_id \in UserIds, talk \in Talks, tie \in Ties :
       engine = [op |-> "", args |-> <<user_id, talk, tie>>, result |-> <<>>]

NextSearch == FuzzySearch

SpecSearch == InitSearch /\ [][NextSearch]_vars

----------------------------------------------------------------------------
(* find_low_freq_words applied to a list of words drawn at the start *)

RECURSIVE ListsOf(_, _)
ListsOf(set, n) ==
  IF n = 0 THEN { <<>> }
  ELSE ListsOf(set, n - 1) \cup
       { Append(l, x) : l \in { m \in ListsOf(set, n - 1) : Len(m) = n - 1 },
                        x \in set }

FindLowFreqWords ==
  /\ engine.op = ""
  /\ engine' = [op |-> "find_low_freq_words", args |-> engine.args,
                result |-> find_low_freq_words(engine.args[1])]
  /\ UNCHANGED <<user_collection, hist, window, obs, pc, local, custom_data,
               journal>>

InitRare ==
  /\ user_collection = <<>> /\ hist = <<>> /\ obs = NoObs /\ window = 0
  /\ pc = [p \in Procs |-> "idle"] /\ local = [p \in Procs |-> NoLocal]
  /\ custom_data = <<>>
  /\ journal = <<>>
  /\ \E words \in ListsOf(RareWordInputs, MaxRareWords) :
       engine = [op |-> "", args |-> <<words>>, result |-> <<>>]

NextRare == FindLowFreqWords

SpecRare == InitRare /\ [][NextRare]_vars

----------------------------------------------------------------------------
(* Two users and two devices, one call at a time, the user, device and     *)
(* text passed to every call kept in the journal                           *)

Contact(op, user_id, device_id, text) ==
  [op |-> op, user_id |-> user_id, device_id |-> device_id, text |-> text]

SaveContact(user_id, text, timestamp, is_final, now) ==
  /\ user_collection' =
       save_transcript_for_user(user_collection, user_id, text, timestamp,
                                is_final, now)
  /\ journal' = Append(journal, Contact("save", user_id, "", text))
  /\ obs' = ObsFor(user_id)
  /\ UNCHANGED <<hist, window, pc, local, custom_data, engine>>

ConsumeContact(user_id) ==
  LET r == get_new_cse_transcripts_for_user(user_collection, user_id)
  IN /\ user_collection' = r.coll
     /\ journal' = Append(journal, Contact("consume", user_id, "", <<>>))
     /\ obs' = ConsumeObs(read_user(user_collection, user_id), r.transcripts)
     /\ UNCHANGED <<hist, window, pc, local, custom_data, engine>>

GetResultsContact(user_id, device_id) ==
  LET r == get_cse_results_for_user_device(user_collection, user_id, device_id,
                                           TRUE, FALSE)
  IN /\ user_collection' = r.coll
     /\ journal' = Append(journal,
                          Contact("get_results", user_id, device_id, <<>>))
     /\ obs' = [ObsFor(user_id) EXCEPT !.device_id = device_id,
                                      !.results = r.new_results]
     /\ UNCHANGED <<hist, window, pc, local, custom_data, engine>>

InitContact == InitStore /\ window = 0

NextContact ==
  /\ Len(journal) < MaxContacts
  /\ \/ \E u \in UserIds, text \in EmptyTexts, ts \in Timestamps,
           now \in Clock :
           SaveContact(u, text, ts, FALSE, now)
     \/ \E u \in UserIds : ConsumeContact(u)
     \/ \E u \in UserIds, d \in Devices : GetResultsContact(u, d)

SpecContact == InitContact /\ [][NextContact]_vars

----------------------------------------------------------------------------
(* get_whole_match on its own: a string of letters and separators and a    *)
(* span of it, start inclusive and end exclusive                           *)

WholeChars == {"a", SP, ",", "\n"}
WholeStrings == ListsOf(WholeChars, MaxTitleLen)

GetWholeMatch ==
  /\ engine.op = ""
  /\ engine' = [op |-> "get_whole_match", args |-> engine.args,
                result |-> get_whole_match(engine.args[1], engine.args[2])]
  /\ UNCHANGED <<user_collection, hist, window, obs, pc, local, custom_data,
                 journal>>

InitWhole ==
  /\ user_collection = <<>> /\ hist = <<>> /\ obs = NoObs /\ window = 0
  /\ pc = [p \in Procs |-> "idle"] /\ local = [p \in Procs |-> NoLocal]
  /\ custom_data = <<>>
  /\ journal = <<>>
  /\ \E full_string \in WholeStrings :
       \E start \in 0..Len(full_string), end \in 0..Len(full_string) :
         /\ start <= end
         /\ engine = [op |-> "",
                      args |-> <<[start |-> start, end |-> end], full_string>>,
                      result |-> <<>>]

NextWhole == GetWholeMatch

SpecWhole == InitWhole /\ [][NextWhole]_vars

----------------------------------------------------------------------------
(* find_closest_start_word_index on its own: a text of letters and spaces  *)
(* and an index, which the callers take from the stored cursor and so may  *)
(* lie past the end of the text                                            *)

SnapTexts == ListsOf({"a", SP}, MaxSnapLen)
SnapIndexes == 0..(MaxSnapLen + 1)

FindClosestStartWordIndex ==
  /\ engine.op = ""
  /\ engine' = [op |-> "find_closest_start_word_index", args |-> engine.args,
                result |-> find_closest_start_word_index(engine.args[1],
                                                         engine.args[2])]
  /\ UNCHANGED <<user_collection, hist, window, obs, pc, local, custom_data,
                 journal>>

InitSnap ==
  /\ user_collection = <<>> /\ hist = <<>> /\ obs = NoObs /\ window = 0
  /\ pc = [p \in Procs |-> "idle"] /\ local = [p \in Procs |-> NoLocal]
  /\ custom_data = <<>>
  /\ journal = <<>>
  /\ \E text \in SnapTexts, curr_index \in SnapIndexes :
       engine = [op |-> "", args |-> <<text, curr_index>>, result |-> 0]

NextSnap == FindClosestStartWordIndex

SpecSnap == InitSnap /\ [][NextSnap]_vars

----------------------------------------------------------------------------
(* Several users, one call at a time *)

InitUsers == InitStore /\ window = 0

NextUsers ==
  \/ \E u \in UserIds, text \in UsersTexts, ts \in Timestamps,
        f \in BOOLEAN, now \in Clock :
        /\ f => total_finals(user_collection) < MaxUsersFinals
        /\ SaveTranscript(u, text, ts, f, now)
  \/ \E u \in UserIds : Consume(u)
  \/ \E u \in UserIds, res \in UsersResults : AddResults(u, <<res>>)
  \/ \E u \in UserIds, d \in DeviceIds, sc \in BOOLEAN, ic \in BOOLEAN :
        GetResults(u, d, sc, ic)

SpecUsers == InitUsers /\ [][NextUsers]_vars

----------------------------------------------------------------------------
(* One user, consume calls of two processes interleaved: a call reads the  *)
(* user's document (lines 160-161) and later writes the cursor (230-232)   *)

ConsumeRead(p, user_id) ==
  LET c1 == create_user_if_not_exists(user_collection, user_id)
  IN /\ pc[p] = "idle"
     /\ user_collection' = c1
     /\ local' = [local EXCEPT ![p] = [user_id |-> user_id,
                                       user |-> get_user(c1, user_id),
                                       ret |-> <<>>, overlapped |-> FALSE,
                                       read_at |-> Len(journal)]]
     /\ pc' = [pc EXCEPT ![p] = "read"]
     /\ UNCHANGED <<hist, window, obs, custom_data, engine, journal>>

ConsumeWrite(p) ==
  LET user == user_read(user_collection, local[p])
      r == unconsumed_transcripts(user)
  IN /\ pc[p] = "read"
     /\ user_collection' = write_cursor(user_collection, local[p].user_id, r.new_index)
     /\ local' = [q \in Procs |->
                   IF q = p THEN [local[p] EXCEPT !.ret = as_string(r.unconsumed)]
                   ELSE IF pc[q] = "read" /\ local[q].user_id = local[p].user_id
                        THEN [local[q] EXCEPT !.overlapped = TRUE]
                        ELSE local[q]]
     /\ pc' = [pc EXCEPT ![p] = "idle"]
     /\ hist' = Push(hist, Call("consume", local[p].user_id, FALSE,
                                as_string(r.unconsumed) = <<>>))
     /\ obs' = ConsumeObs(user, r.unconsumed)
     /\ UNCHANGED <<window, custom_data, engine, journal>>

InitConc == InitStore /\ window = 0

NextConc ==
  \/ \E u \in SeqUsers, text \in ConcTexts, ts \in Timestamps,
        f \in BOOLEAN, now \in Clock :
        /\ f => Len(finals_of(user_collection, u)) < MaxConcFinals
        /\ SaveTranscript(u, text, ts, f, now)
  \/ \E p \in Procs, u \in SeqUsers : ConsumeRead(p, u)
  \/ \E p \in Procs : ConsumeWrite(p)

SpecConc == InitConc /\ [][NextConc]_vars

----------------------------------------------------------------------------
(* One user, consume calls in two steps (the read of the document, then    *)
(* the write of the cursor) with saves and other consume calls in between, *)
(* every completed call kept in the journal                                *)

InFlightTexts == { <<"a", SP, "b", SP, "c", SP, "d", SP, "e">> }

\* the consume calls that have read the document and not yet written
in_flight == Cardinality({ p \in Procs : pc[p] = "read" })

ConsumeWriteFlow(p) ==
  LET user == user_read(user_collection, local[p])
      r == unconsumed_transcripts(user)
      coll == write_cursor(user_collection, local[p].user_id, r.new_index)
  IN /\ pc[p] = "read"
     /\ user_collection' = coll
     /\ journal' = Append(journal,
                          Entry("consume", <<>>, FALSE, r.unconsumed,
                                cut_of(user), user,
                                get_user(coll, local[p].user_id),
                                local[p].read_at))
     /\ local' = [q \in Procs |->
                   IF q = p THEN [local[p] EXCEPT !.ret = as_string(r.unconsumed)]
                   ELSE IF pc[q] = "read" /\ local[q].user_id = local[p].user_id
                        THEN [local[q] EXCEPT !.overlapped = TRUE]
                        ELSE local[q]]
     /\ pc' = [pc EXCEPT ![p] = "idle"]
     /\ obs' = ConsumeObs(user, r.unconsumed)
     /\ UNCHANGED <<hist, window, custom_data, engine>>

InitInFlight == InitStore /\ window = 0

NextInFlight ==
  \/ \E u \in SeqUsers, text \in InFlightTexts, ts \in Timestamps,
        f \in BOOLEAN, now \in Clock :
        /\ Len(journal) + in_flight < MaxCalls
        /\ SaveFlow(u, text, ts, f, now)
  \/ \E p \in Procs, u \in SeqUsers :
        /\ Len(journal) + in_flight < MaxCalls
        /\ ConsumeRead(p, u)
  \/ \E p \in Procs : ConsumeWriteFlow(p)

SpecInFlight == InitInFlight /\ [][NextInFlight]_vars

----------------------------------------------------------------------------
(* Properties of the cursor, one user, one call at a time (Spec) *)

\* the k-th last call
H(k) == hist[Len(hist) + 1 - k]

IsConsume(k) == Len(hist) >= k /\ H(k).op = "consume"
IsSave(k, is_final) ==
  Len(hist) >= k /\ H(k).op = "save" /\ H(k).is_final = is_final

\* the document of the one user of Spec
HasDoc == find_index(user_collection, "u1") # 0
Doc == get_user(user_collection, "u1")

\* index i of text is where a word begins (or lies outside the words):
\* 0, the end, a space, or the character after a space
AtWordStart(text, i) ==
  \/ i = 0
  \/ i >= Len(text)
  \/ text[i + 1] = SP
  \/ text[i] = SP

LastWords(words, k) == SubSeq(words, Len(words) - k + 1, Len(words))

\* C1: a consume call that directly follows a consume call of the same user
\* (no save in between) returns the empty string.
C1_SecondConsumeEmpty ==
  (IsConsume(1) /\ IsConsume(2) /\ H(1).user_id = H(2).user_id) => H(1).empty

\* C2: after a consume call that found nothing new (it followed a consume
\* call and returned the empty string), the next consume call without
\* ingestion returns the empty string too: nothing is delivered again.
C2_NothingDeliveredAgain ==
  (IsConsume(1) /\ IsConsume(2) /\ IsConsume(3) /\ H(2).empty) => H(1).empty

\* C3: the new text a consume call returns starts where a word of the
\* segment text begins, never inside a word.
C3_NoWordFragment ==
  (IsConsume(1) /\ obs.cut.applied /\ obs.cut.new_text # <<>>)
    => AtWordStart(obs.cut.text, obs.cut.start_index)

\* C4: final A saved, consumed, intermediate B saved: the next consume
\* returns 1 to 4 trailing words of A followed by the text of B.
C4_BackslideThenNewText ==
  (IsSave(4, TRUE) /\ IsConsume(3) /\ IsSave(2, FALSE) /\ IsConsume(1))
    => LET A == split(Doc.final_transcripts[Len(Doc.final_transcripts)].text)
           B == strip(Doc.latest_intermediate_transcript.text)
       IN \E k \in 1..Min(backslide, Len(A)) :
            obs.ret = join(LastWords(A, k)) \o <<SP>> \o B

\* C5: the first two calls for a fresh user being a save of a final segment
\* T and a consume, the consume returns exactly T, trimmed; a consume that
\* follows it returns the empty string.  (hist shorter than the window is
\* the whole history.)
C5_FreshFinalReturnedWhole ==
  /\ (Len(hist) = 2 /\ IsSave(2, TRUE) /\ IsConsume(1))
       => obs.ret = strip(Doc.final_transcripts[1].text)
  /\ (Len(hist) = 3 /\ IsSave(3, TRUE) /\ IsConsume(2) /\ IsConsume(1))
       => obs.ret = <<>>

C5_Witness ==
  /\ Len(hist) = 3 /\ IsSave(3, TRUE) /\ IsConsume(2) /\ IsConsume(1)
  /\ ~H(2).empty /\ H(1).empty
  /\ Len(split(Doc.final_transcripts[1].text)) > backslide

\* the text the stored index is interpreted against: the marker's segment,
\* or the pending intermediate when the marker is -1
CursorText(user) ==
  IF user.cse_consumed_transcript_id = NONE
  THEN user.latest_intermediate_transcript.text
  ELSE IF marker_index(user) # 0
       THEN user.final_transcripts[marker_index(user)].text
       ELSE <<>>

\* C6: the stored index never points strictly inside a word of the text it
\* is interpreted against.
C6_OffsetAtWordBoundary ==
  \A i \in 1..Len(user_collection) :
    AtWordStart(CursorText(user_collection[i]),
                user_collection[i].cse_consumed_transcript_idx)

IsPrefix(s, t) == Len(s) <= Len(t) /\ SubSeq(t, 1, Len(s)) = s

\* C7: a save (its purge included) or a consume keeps every stored final
\* segment, in order and with its text: the list only grows at its end.
C7_FinalsAppendOnly ==
  [][(IsSave(1, TRUE) \/ IsSave(1, FALSE) \/ IsConsume(1))' =>
       \A i \in 1..Len(user_collection) :
         /\ i <= Len(user_collection')
         /\ user_collection'[i].user_id = user_collection[i].user_id
         /\ IsPrefix(user_collection[i].final_transcripts,
                     user_collection'[i].final_transcripts)]_vars

\* a consume has returned a rewritten copy of a final segment that is stored
C7_Witness ==
  /\ IsConsume(1) /\ obs.cut.applied /\ HasDoc
  /\ Len(obs.texts) >= 1 /\ obs.texts[1] # obs.cut.text
  /\ \E j \in 1..Len(Doc.final_transcripts) :
       Doc.final_transcripts[j].text = obs.cut.text

----------------------------------------------------------------------------
(* Interleaved consume calls (SpecConc) *)

\* q's last call read its document before another call for the same user
\* wrote the cursor, and p's last call read the same document
ReadSameDocument(p, q) ==
  /\ p # q
  /\ pc[p] = "idle" /\ pc[q] = "idle"
  /\ local[q].overlapped
  /\ local[p].user_id = local[q].user_id
  /\ local[p].user = local[q].user

\* C8: a consume call returns the text of the document it read, whatever
\* another call has written since: two calls that both read the user's
\* document before either wrote the cursor return the same text.
C8_OverlappingConsumesAgree ==
  \A p, q \in Procs : ReadSameDocument(p, q) => local[q].ret = local[p].ret

\* both calls have returned the same newly ingested text
C8_Witness ==
  \E p, q \in Procs :
    /\ ReadSameDocument(p, q)
    /\ local[p].ret = local[q].ret
    /\ local[p].ret # <<>>
    /\ local[p].user.latest_intermediate_transcript.text # <<>>

----------------------------------------------------------------------------
(* Several users (SpecUsers) *)

docs_of(coll, user_id) ==
  LET of_user(d) == d.user_id = user_id IN SelectSeq(coll, of_user)

\* C9: a call for one user leaves the documents of every other user
\* (transcripts, marker, index, results, device list) as they were.
C9_UsersIsolated ==
  [][\A v \in UserIds \ {obs'.user_id} :
       docs_of(user_collection', v) = docs_of(user_collection, v)]_vars

\* a call for one user has returned something while the other user holds
\* transcripts, a moved cursor, a result and a device
C9_Witness ==
  \E u, v \in UserIds :
    /\ u # v
    /\ obs.ret # <<>>
    /\ find_index(user_collection, u) # 0
    /\ find_index(user_collection, v) # 0
    /\ get_user(user_collection, u).cse_consumed_transcript_idx
         # get_user(user_collection, v).cse_consumed_transcript_idx
    /\ get_user(user_collection, v).cse_results # <<>>
    /\ get_user(user_collection, v).ui_list # <<>>
    /\ get_user(user_collection, v).latest_intermediate_transcript.text # <<>>

----------------------------------------------------------------------------
(* A marker that names no stored transcript (SpecDelete) *)

StaleMarker(user) ==
  user.cse_consumed_transcript_id # NONE /\ marker_index(user) = 0

----------------------------------------------------------------------------
(* The empty text (SpecEmpty) *)

NoStoredText(user_id) ==
  \/ find_index(user_collection, user_id) = 0
  \/ /\ get_user(user_collection, user_id).final_transcripts = <<>>
     /\ get_user(user_collection, user_id).latest_intermediate_transcript.text = <<>>

\* C11: a save with the empty text leaves the whole store as it was (no
\* user created, no transcript stored, marker and index untouched), and a
\* consume for a user with no stored text returns the empty string.
C11_EmptyTextNoChange ==
  [][/\ \A u \in SeqUsers, ts \in Timestamps, f \in BOOLEAN, now \in Clock :
          SaveTranscript(u, <<>>, ts, f, now)
            => user_collection' = user_collection
     /\ \A u \in SeqUsers :
          (NoStoredText(u) /\ IsConsume(1)' /\ obs'.user_id = u)
            => obs'.ret = <<>>]_vars

\* a consume has returned nothing and created the user; the save after it
\* stored nothing, so its text was empty
C11_Witness ==
  /\ IsConsume(2) /\ H(2).empty /\ IsSave(1, TRUE)
  /\ HasDoc /\ NoStoredText("u1")

----------------------------------------------------------------------------
(* Results read by the devices of a user (SpecDevices) *)

IsGetResults(k) == Len(hist) >= k /\ H(k).op = "get_results"

\* C12: a result a call for a device has returned is not returned by the
\* next call for the same user and device.
C12_NotReturnedAgain ==
  [][(/\ IsGetResults(1) /\ IsGetResults(1)'
      /\ obs'.user_id = obs.user_id
      /\ obs'.device_id = obs.device_id)
       => \A i \in 1..Len(obs.results) : ~in_list(obs.results[i], obs'.results)]_vars

\* the ids the entry of device_id in the user's ui_list holds as consumed
consumed_by_device(user, device_id) ==
  LET of_device(ui) == ui.device_id = device_id
      entries == SelectSeq(user.ui_list, of_device)
  IN IF entries = <<>> THEN <<>> ELSE entries[1].consumed_cse_result_ids

\* the stored results with a uuid that device_id has not consumed
unconsumed_by_device(user, device_id) ==
  LET fresh(res) ==
        /\ "uuid" \in DOMAIN res
        /\ ~in_list(res.uuid, consumed_by_device(user, device_id))
  IN SelectSeq(user.cse_results, fresh)

\* C13: a call for a device returns exactly the stored results with a uuid
\* that this device has not consumed, whatever the other devices consumed.
C13_PerDeviceConsumption ==
  [][(IsGetResults(1)' /\ find_index(user_collection, obs'.user_id) # 0)
       => obs'.results =
            unconsumed_by_device(get_user(user_collection, obs'.user_id),
                                 obs'.device_id)]_vars

----------------------------------------------------------------------------
(* The windows of a word list (SpecWindows) *)

IsCall(op) == engine.op = op

\* the joins of the runs of 2..k consecutive words
contiguous_joins(words, k) ==
  { join(SubSeq(words, i, i + n - 1)) :
      <<n, i>> \in { p \in (2..k) \X (1..Len(words)) : p[2] + p[1] - 1 <= Len(words) } }

\* C14: find_combinations(words, k) is exactly the set of the joins of the
\* runs of 2..k consecutive words: no single word, nothing for fewer than 2
\* words, and {"a b", "b c", "a b c"} for (["a","b","c"], 3).
C14_ContiguousWindows ==
  IsCall("find_combinations") =>
    LET words == engine.args[1]
        k == engine.args[2]
    IN /\ engine.result = contiguous_joins(words, k)
       /\ \A w \in engine.result : Len(split(w)) \in 2..k
       /\ Len(words) < 2 => engine.result = {}
       /\ (words = << <<"a">>, <<"b">>, <<"c">> >> /\ k = 3)
            => engine.result = { <<"a", SP, "b">>, <<"b", SP, "c">>,
                               <<"a", SP, "b", SP, "c">> }

\* a word list with a repeated run: fewer windows than runs
C14_Witness ==
  /\ IsCall("find_combinations")
  /\ engine.args[1] = << <<"a">>, <<"a">>, <<"a">> >> /\ engine.args[2] = 3
  /\ engine.result = { <<"a", SP, "a">>, <<"a", SP, "a", SP, "a">> }


----------------------------------------------------------------------------
(* Claims about custom_fuzzy_search, checked under SpecFuzzy *)

to_search_of(call) == call.args[1]
entities_of(call) == enumerate(call.args[2], 1)

\* C15: custom_fuzzy_search returns no match for a candidate shorter than 8
\* characters, whatever the catalog, and whenever a cheap reject (length,
\* filler-word fraction, phrase rarity below 0.04) fires, the result is empty
\* and no catalog title is scanned.
C15_CheapRejects ==
  IsCall("custom_fuzzy_search") =>
    LET to_search == to_search_of(engine)
        words == split(to_search)
        short == Len(to_search) < 8
        filler == words # <<>> /\ 5 * num_banned_of(words) >= 2 * Len(words)
        common == freq_below(get_string_freq(to_search), 40)
    IN /\ short => engine.result.matches = <<>> /\ engine.result.error = ""
       /\ (short \/ filler \/ common) =>
            /\ engine.result.matches = <<>>
            /\ engine.result.scanned = 0
            /\ engine.result.error = ""

\* a short candidate was rejected although a title of the catalog would have
\* been accepted by the search proper
C15_Witness ==
  /\ IsCall("custom_fuzzy_search")
  /\ Len(to_search_of(engine)) < 8
  /\ search_entities(to_search_of(engine), entities_of(engine), engine.args[3]).matches # <<>>
  /\ engine.result.matches = <<>>
  /\ engine.result.scanned = 0

\* the filler-word reject is reached by candidates of 8 characters or more
\* that have at least one word
ReachesFillerTest(call) ==
  Len(to_search_of(call)) >= 8 /\ split(to_search_of(call)) # <<>>

\* C16 (as stated): the filler-word cheap reject fires exactly when the
\* fraction of the candidate's words that are filler words exceeds 0.4; at
\* exactly 0.4 (2 of 5) it does not fire.
C16_RejectsAboveTwoFifths ==
  (IsCall("custom_fuzzy_search") /\ ReachesFillerTest(engine)) =>
    LET words == split(to_search_of(engine))
    IN engine.result.reject = "filler"
         <=> 5 * num_banned_of(words) > 2 * Len(words)

\* C16 (amended): the filler-word cheap reject fires exactly when the fraction
\* is at least 0.4; a candidate at exactly 0.4 (2 of 5) is rejected.
C16_RejectsFromTwoFifths ==
  (IsCall("custom_fuzzy_search") /\ ReachesFillerTest(engine)) =>
    LET words == split(to_search_of(engine))
    IN engine.result.reject = "filler"
         <=> 5 * num_banned_of(words) >= 2 * Len(words)

C16_Witness ==
  /\ IsCall("custom_fuzzy_search") /\ ReachesFillerTest(engine)
  /\ LET words == split(to_search_of(engine))
     IN Len(words) = 5 /\ num_banned_of(words) = 2
  /\ engine.result.reject = "filler"

----------------------------------------------------------------------------
(* Claims about fuzzy_search_on_user_custom_data, checked under SpecSearch *)

user_id_of(call) == call.args[1]
talk_of(call) == call.args[2]
items(seq) == { seq[i] : i \in 1..Len(seq) }

\* the catalog rows (counted from 0) that custom_fuzzy_search accepts for the
\* window combination
accepted_for(call, combination) ==
  items(custom_fuzzy_search(combination,
          enumerate(custom_data[user_id_of(call)].columns["title"], 1),
          call.args[3]).matches)

windows_of(call) == find_combinations(split(talk_of(call)), max_window_size)

title_of(call, mi) == custom_data[user_id_of(call)].columns["title"][mi + 1]

\* C17: fuzzy_search_on_user_custom_data returns at most 4 entries, each keyed
\* by a distinct catalog title whose index custom_fuzzy_search accepted for at
\* least one window of the text; a title accepted by several windows or spans
\* appears exactly once.
C17_AtMostFourDistinctAccepted ==
  IsCall("fuzzy_search_on_user_custom_data") =>
    LET matches == engine.result.matches
    IN /\ Len(matches) <= 4
       /\ \A i \in 1..Len(matches) :
            \E combination \in windows_of(engine) :
              \E mi \in accepted_for(engine, combination) :
                /\ matches[i].key = title_of(engine, mi)
                /\ matches[i].value.name = title_of(engine, mi)
       /\ \A i, j \in 1..Len(matches) :
            matches[i].key = matches[j].key => i = j

\* 4 entries were returned although more titles were accepted, one of the
\* returned titles being accepted by two windows and at two rows
C17_Witness ==
  /\ IsCall("fuzzy_search_on_user_custom_data")
  /\ Len(engine.result.matches) = 4
  /\ Cardinality({ title_of(engine, mi) :
                     mi \in UNION { accepted_for(engine, combination) :
                                    combination \in windows_of(engine) } }) > 4
  /\ \E i \in 1..Len(engine.result.matches) :
       /\ \E c1, c2 \in windows_of(engine) :
            /\ c1 # c2
            /\ \E mi \in accepted_for(engine, c1) \cap accepted_for(engine, c2) :
                 title_of(engine, mi) = engine.result.matches[i].key
       /\ \E m1, m2 \in UNION { accepted_for(engine, combination) :
                                  combination \in windows_of(engine) } :
            /\ m1 # m2
            /\ title_of(engine, m1) = engine.result.matches[i].key
            /\ title_of(engine, m2) = engine.result.matches[i].key

\* C18: two runs of fuzzy_search_on_user_custom_data on the same text and
\* the same catalog return the same set of entries, also when more than 4
\* titles are accepted and excess entries are discarded.
C18_SameEntriesOnRerun ==
  [][(/\ IsCall("fuzzy_search_on_user_custom_data")
      /\ IsCall("fuzzy_search_on_user_custom_data")'
      /\ engine'.args = engine.args
      /\ custom_data' = custom_data)
     => items(engine'.result.matches) = items(engine.result.matches)]_vars

\* the user has no loaded catalog: no data, data that is not a table, or a
\* table without rows
NoCatalog(user_id) ==
  \/ user_id \notin DOMAIN custom_data
  \/ custom_data[user_id].kind # "DataFrame"
  \/ \A c \in DOMAIN custom_data[user_id].columns :
       custom_data[user_id].columns[c] = <<>>

\* C19: for a user with no loaded catalog (missing, not a table, or empty),
\* fuzzy_search_on_user_custom_data returns an empty result without raising
\* an error, for every input text.
C19_NoCatalogNoResult ==
  (IsCall("fuzzy_search_on_user_custom_data") /\ NoCatalog(user_id_of(engine)))
    => engine.result.matches = <<>> /\ engine.result.error = ""

\* the user's data is the dict() of line 337, the text is one that another
\* user's catalog matches
C19_Witness ==
  /\ IsCall("fuzzy_search_on_user_custom_data")
  /\ user_id_of(engine) \in DOMAIN custom_data
  /\ custom_data[user_id_of(engine)].kind = "dict"
  /\ \E other \in DOMAIN custom_data :
       fuzzy_search_on_user_custom_data(other, talk_of(engine), engine.args[3])
         # { Returned(<<>>) }
  /\ engine.result.matches = <<>> /\ engine.result.error = ""

----------------------------------------------------------------------------
(* A verbatim occurrence (SpecFuzzy) *)

\* the candidate occurs verbatim, case-insensitively, at offset p (from 0) of
\* the normalized title
verbatim_at(to_search, searched_entity, p) ==
  /\ p + Len(to_search) <= Len(searched_entity)
  /\ PySlice(searched_entity, p, p + Len(to_search)) = lower(to_search)

\* ... at a word start, the whole words it touches being at most one
\* character longer than the candidate
good_occurrence(to_search, searched_entity, p) ==
  /\ verbatim_at(to_search, searched_entity, p)
  /\ (p = 0 \/ searched_entity[p] = SP)
  /\ Len(get_whole_match([start |-> p, end |-> p + Len(to_search)],
                         searched_entity)) <= Len(to_search) + 1

offsets(searched_entity) == 0..Len(searched_entity)

\* a candidate of at least two words and 8 characters that passed the cheap
\* rejects
PassedCheapRejects(call) ==
  /\ call.op = "custom_fuzzy_search"
  /\ Len(to_search_of(call)) >= 8
  /\ Len(split(to_search_of(call))) >= 2
  /\ call.result.reject = "" /\ call.result.error = ""

returned(call, idx) == \E i \in 1..Len(call.result.matches) : call.result.matches[i] = idx

\* C20 (as stated): a candidate of at least two words and 8 characters that
\* passes the cheap rejects and occurs verbatim in the normalized title at a
\* word start, the whole words it touches being at most one character longer,
\* is accepted: the title's id is returned.
C20_VerbatimAccepted ==
  PassedCheapRejects(engine) =>
    \A k \in 1..Len(entities_of(engine)) :
      LET to_search == to_search_of(engine)
          searched_entity == searched_entity_of(entities_of(engine)[k][2])
      IN (\E p \in offsets(searched_entity) :
            good_occurrence(to_search, searched_entity, p))
         => returned(engine, entities_of(engine)[k][1])

\* C20 (amended): ... and it is the only verbatim occurrence of the candidate
\* in the normalized title.
C20_OnlyVerbatimAccepted ==
  PassedCheapRejects(engine) =>
    \A k \in 1..Len(entities_of(engine)) :
      LET to_search == to_search_of(engine)
          searched_entity == searched_entity_of(entities_of(engine)[k][2])
      IN (\E p \in offsets(searched_entity) :
            /\ good_occurrence(to_search, searched_entity, p)
            /\ \A q \in offsets(searched_entity) \ {p} :
                 ~verbatim_at(to_search, searched_entity, q))
         => returned(engine, entities_of(engine)[k][1])

\* "fedora tip" against "Fedora Tips and Tricks": accepted, the whole words
\* being one character longer
C20_Witness ==
  /\ PassedCheapRejects(engine)
  /\ to_search_of(engine) = <<"f", "e", "d", "o", "r", "a", SP, "t", "i", "p">>
  /\ engine.args[2] = << FedoraTipsAndTricks >>
  /\ good_occurrence(to_search_of(engine), searched_entity_of(FedoraTipsAndTricks), 0)
  /\ returned(engine, 0)

----------------------------------------------------------------------------
(* The filters on a match (SpecFuzzy) *)

Searched(call) ==
  call.op = "custom_fuzzy_search" /\ call.result.reject = ""
    /\ call.result.error = ""

\* the raw spans the fuzzy search finds for the k-th title of the call
raw_spans(call, k) ==
  find_near_matches(lower(to_search_of(call)),
                    searched_entity_of(entities_of(call)[k][2]), call.args[3])

\* how far the length of the whole words of a span is from the candidate's
length_gap(call, k, span) ==
  abs(Len(get_whole_match(span, searched_entity_of(entities_of(call)[k][2])))
        - Len(to_search_of(call)))

\* C35: the whole match of every accepted match is at most one character
\* longer or shorter than the candidate, and a title whose raw spans all
\* have whole matches 2 or more characters off contributes no id
C35_WholeMatchWithinOne ==
  Searched(engine) =>
    /\ Len(engine.result.matches) = Len(engine.result.accepted)
    /\ \A i \in 1..Len(engine.result.accepted) :
         LET a == engine.result.accepted[i]
         IN /\ engine.result.matches[i] = a.idx
            /\ abs(Len(a.whole_match) - Len(to_search_of(engine))) <= 1
            /\ a.whole_match
                 = get_whole_match([start |-> a.start, end |-> a.end],
                                   a.searched_entity)
    /\ \A k \in 1..Len(entities_of(engine)) :
         (\A j \in 1..Len(raw_spans(engine, k)) :
            length_gap(engine, k, raw_spans(engine, k)[j]) >= 2)
           => ~returned(engine, entities_of(engine)[k][1])

\* "fedora tip": the span in "fedora tipsy" is the candidate itself, its
\* whole words are two characters longer, and the title's id is not returned
C35_Witness ==
  /\ Searched(engine)
  /\ \E k \in 1..Len(entities_of(engine)) :
       /\ raw_spans(engine, k) # <<>>
       /\ \A j \in 1..Len(raw_spans(engine, k)) :
            /\ raw_spans(engine, k)[j].dist = 0
            /\ length_gap(engine, k, raw_spans(engine, k)[j]) = 2
       /\ ~returned(engine, entities_of(engine)[k][1])

\* a catalog title that is one token with two capitals or more
CapitalizedToken(entity) ==
  /\ entity # <<>>
  /\ \A i \in 1..Len(entity) : is_upper(entity[i]) \/ is_lower(entity[i])
  /\ count_capitals(entity) >= 2

C37_StartsAtWordStart ==
  Searched(engine) =>
    /\ \A i \in 1..Len(engine.result.accepted) :
         LET a == engine.result.accepted[i]
         IN a.start = 0 \/ a.searched_entity[a.start] = SP
    /\ \A k \in 1..Len(entities_of(engine)) :
         LET searched_entity == searched_entity_of(entities_of(engine)[k][2])
         IN (\A j \in 1..Len(raw_spans(engine, k)) :
               LET start == raw_spans(engine, k)[j].start
               IN start # 0 /\ searched_entity[start] # SP)
              => ~returned(engine, entities_of(engine)[k][1])

\* "fedora tip": the span in "xfedora tip" begins inside the first word, its
\* whole words are one character longer, and the id is not returned
C37_Witness ==
  /\ Searched(engine)
  /\ \E k \in 1..Len(entities_of(engine)) :
       /\ raw_spans(engine, k) # <<>>
       /\ \A j \in 1..Len(raw_spans(engine, k)) :
            /\ raw_spans(engine, k)[j].start = 1
            /\ raw_spans(engine, k)[j].dist = 0
            /\ length_gap(engine, k, raw_spans(engine, k)[j]) = 1
       /\ ~returned(engine, entities_of(engine)[k][1])

----------------------------------------------------------------------------
(* get_whole_match (SpecWhole) *)

\* space, comma, colon, semicolon and the two line-break characters
Separator(c) == c \in {SP, ",", ":", ";", "\n", "\r"}

\* full_string[from:to] is the span start..end extended on both sides over
\* characters that are no separator, up to a separator or an end of the
\* string
WholeWordsAround(full_string, start, end, from, to) ==
  /\ from <= start /\ end <= to
  /\ \A i \in (from + 1)..start : ~Separator(full_string[i])
  /\ \A i \in (end + 1)..to : ~Separator(full_string[i])
  /\ from = 0 \/ Separator(full_string[from])
  /\ to = Len(full_string) \/ Separator(full_string[to + 1])

\* C38: get_whole_match returns the span extended left and right up to the
\* nearest separator, not included, or the end of the string
C38_WholeMatchExtendsSpan ==
  engine.op = "get_whole_match"
    => LET span == engine.args[1]
           full_string == engine.args[2]
       IN \E from \in 0..span.start, to \in span.end..Len(full_string) :
            /\ WholeWordsAround(full_string, span.start, span.end, from, to)
            /\ engine.result = PySlice(full_string, from, to)

\* a span inside a word between two separators, extended on both sides
C38_Witness ==
  /\ engine.op = "get_whole_match"
  /\ engine.args[2] = <<",", "a", "a", "a">>
  /\ engine.args[1] = [start |-> 2, end |-> 3]
  /\ engine.result = <<"a", "a", "a">>

----------------------------------------------------------------------------
(* Claims about find_low_freq_words, checked under SpecRare *)

in_corpus(index, word) == \E e \in index : e.word = word
rank_in(index, word) == (CHOOSE e \in index : e.word = word).rows[1]

\* the classification the claim states, thresholds as lines 9-14 compute them
RareByRank(word) ==
  \/ ~in_corpus(idx_google_dict_word_freq, word)
  \/ rank_in(idx_google_dict_word_freq, word) * 5000 > 461 * 333334
  \/ /\ in_corpus(idx_norvig_dict_word_freq, word)
     /\ rank_in(idx_norvig_dict_word_freq, word) * 1000 > 901 * 30000

RECURSIVE rare_in_order(_)
rare_in_order(words) ==
  IF words = <<>> THEN <<>>
  ELSE (IF RareByRank(lower(Head(words))) THEN << lower(Head(words)) >> ELSE <<>>)
       \o rare_in_order(Tail(words))

\* C21: find_low_freq_words never raises for a word missing from either
\* corpus; a word absent from the large corpus is rare; a word present in it
\* is rare exactly when its large-corpus rank exceeds the large-corpus
\* threshold or it is in the small corpus with a rank above the small-corpus
\* threshold; the output lists the rare words lower-cased in input order.
C21_RareWordsInOrder ==
  IsCall("find_low_freq_words") =>
    /\ engine.result.error = ""
    /\ engine.result.low_freq_words = rare_in_order(engine.args[1])

\* a word in no corpus and a word only the small corpus makes rare were
\* listed, second word first as given
C21_Witness ==
  /\ IsCall("find_low_freq_words")
  /\ engine.args[1] = << <<"w", "h">>, <<"q", "x">> >>
  /\ engine.result.low_freq_words = << <<"w", "h">>, <<"q", "x">> >>
  /\ engine.result.error = ""

----------------------------------------------------------------------------
(* Claims about sequences of calls, on the journal of SpecFlow *)

Range(q) == { q[i] : i \in 1..Len(q) }

\* the words of a text
words_of(text) == Range(split(text)) \ {<<>>}

\* the words of a text, one per occurrence
word_list(text) == SelectSeq(split(text), LAMBDA w : w # <<>>)

Saves(i) == journal[i].op = "save"
Consumes(i) == journal[i].op = "consume"

\* the first consume call made after call i, 0 when there is none yet
next_consume(i) ==
  IF \E j \in (i + 1)..Len(journal) : Consumes(j)
  THEN CHOOSE j \in (i + 1)..Len(journal) :
         Consumes(j) /\ \A k \in (i + 1)..(j - 1) : ~Consumes(k)
  ELSE 0

\* C22: when only final segments are saved, every word of a saved segment
\* is in the text returned by the first consume call made after the save
C22_NoFinalSkipped ==
  (\A k \in 1..Len(journal) : Saves(k) => journal[k].is_final)
    => \A i \in 1..Len(journal) :
         (Saves(i) /\ next_consume(i) # 0)
           => words_of(journal[i].text)
                \subseteq words_of(journal[next_consume(i)].ret)

\* call i saves an intermediate segment of two words or more, none of
\* which was saved or returned before, right after a consume call
NewUtterance(i) ==
  /\ Saves(i) /\ ~journal[i].is_final
  /\ Len(word_list(journal[i].text)) >= 2
  /\ i > 1 /\ Consumes(i - 1)
  /\ \A k \in 1..(i - 1) :
       /\ words_of(journal[k].text) \cap words_of(journal[i].text) = {}
       /\ words_of(journal[k].ret) \cap words_of(journal[i].text) = {}

\* C23: the consume call that follows the save of a new utterance returns
\* every word of it
C23_NewIntermediateDelivered ==
  \A i \in 1..(Len(journal) - 1) :
    (NewUtterance(i) /\ Consumes(i + 1))
      => words_of(journal[i].text) \subseteq words_of(journal[i + 1].ret)

\* the indexes (from 0) of the spaces of text at or before i
spaces_up_to(text, i) == { k \in 0..i : k < Len(text) /\ text[k + 1] = SP }

\* C26: find_closest_start_word_index(text, i) is the index of the nearest
\* space at or before i, and 0 when there is none
C26_SnapsToSpaceOrZero ==
  engine.op = "find_closest_start_word_index"
    => LET text == engine.args[1]
           i == engine.args[2]
       IN /\ engine.result <= i
          /\ engine.result = IF spaces_up_to(text, i) = {} THEN 0
                              ELSE LET set == spaces_up_to(text, i)
                                   IN CHOOSE m \in set : \A k \in set : k <= m

\* calls i..k: an intermediate segment saved, consume calls only (the first
\* returns the segment), then a final segment with the same text saved
ReturnedThenFinal(i, k) ==
  /\ Saves(i) /\ ~journal[i].is_final
  /\ k > i + 1
  /\ \A j \in (i + 1)..(k - 1) : Consumes(j)
  /\ word_list(journal[i + 1].ret) = word_list(journal[i].text)
  /\ Saves(k) /\ journal[k].is_final
  /\ journal[k].text = journal[i].text
  /\ journal[k].before.final_transcripts = <<>>

\* C24: the consume call after the final save returns at most
\* BACKSLIDE_WORDS words of the text again
C24_DuplicationBounded ==
  \A i \in 1..Len(journal), k \in 1..(Len(journal) - 1) :
    (ReturnedThenFinal(i, k) /\ Consumes(k + 1))
      => Len(word_list(journal[k + 1].ret)) <= backslide

\* call i is a consume call that found a marker naming a stored final
MarkerCase(i) == Consumes(i) /\ marker_index(journal[i].before) # 0

\* the texts of the finals stored after position k, in stored order
later_finals(user, k) ==
  [j \in 1..(Len(user.final_transcripts) - k) |->
     user.final_transcripts[k + j].text]

pending_intermediate(user) ==
  IF user.latest_intermediate_transcript.text # <<>>
  THEN <<user.latest_intermediate_transcript.text>> ELSE <<>>

\* the words in front of the cut: the final before the marker's segment,
\* then the marker's segment up to the snapped offset
words_before_cut(user, k, cut) ==
  word_list((IF k > 1 THEN user.final_transcripts[k - 1].text ELSE <<>>)
              \o <<SP>> \o PySliceTo(cut.text, cut.start_index))

\* q ends with b of the words of p
EndsWithTail(q, p, b) ==
  /\ b <= Len(p) /\ b <= Len(q)
  /\ SubSeq(q, 1, b) = SubSeq(p, Len(p) - b + 1, Len(p))

\* C27: with a marker naming a stored final, consume returns one item made
\* of at most BACKSLIDE_WORDS words that precede the cut and the rest of
\* the marker's segment, then the later finals in full in stored order,
\* then the pending intermediate if it is not empty, and nothing else
C27_MarkerBranchOrder ==
  \A i \in 1..Len(journal) :
    MarkerCase(i)
      => LET user == journal[i].before
             k == marker_index(user)
             cut == journal[i].cut
             texts == journal[i].texts
             rest == word_list(cut.new_text)
         IN /\ texts # <<>>
            /\ Tail(texts) = later_finals(user, k) \o pending_intermediate(user)
            /\ \E b \in 0..backslide :
                 /\ EndsWithTail(word_list(texts[1]),
                                 words_before_cut(user, k, cut), b)
                 /\ word_list(texts[1])
                      = SubSeq(word_list(texts[1]), 1, b) \o rest

\* a consume call returned backslide words, a later final and the
\* intermediate
C27_Witness ==
  \E i \in 1..Len(journal) :
    /\ MarkerCase(i)
    /\ later_finals(journal[i].before, marker_index(journal[i].before)) # <<>>
    /\ pending_intermediate(journal[i].before) # <<>>
    /\ Len(journal[i].texts) = 3

Last(q) == q[Len(q)]

\* C28: after a consume call the marker is -1; the offset is 0 when the
\* call returned nothing; when the call found a marker naming a stored
\* final, the offset is the length of the text of the last item returned,
\* which is the pending intermediate if there is one
C28_CursorAfterConsume ==
  \A i \in 1..Len(journal) :
    Consumes(i)
      => LET before == journal[i].before
             after == journal[i].after
             texts == journal[i].texts
         IN /\ after.cse_consumed_transcript_id = NONE
            /\ texts = <<>> => after.cse_consumed_transcript_idx = 0
            /\ MarkerCase(i)
                 => /\ texts # <<>>
                    /\ after.cse_consumed_transcript_idx = Len(Last(texts))
                    /\ pending_intermediate(before) # <<>>
                         => Last(texts) = Last(pending_intermediate(before))
                    /\ (pending_intermediate(before) = <<>>
                          /\ later_finals(before, marker_index(before)) # <<>>)
                         => Last(texts)
                              = Last(before.final_transcripts).text

\* a consume call with a marker returned two finals of different lengths
C28_Witness ==
  \E i \in 1..Len(journal) :
    /\ MarkerCase(i)
    /\ Len(journal[i].texts) = 2
    /\ pending_intermediate(journal[i].before) = <<>>
    /\ Len(journal[i].texts[1]) # Len(journal[i].texts[2])
    /\ journal[i].after.cse_consumed_transcript_idx = Len(journal[i].texts[2])

\* C29: a consume call that finds marker -1 and returns text of the pending
\* intermediate leaves the offset at the snapped start index, an index
\* within the intermediate text
C29_OffsetIsStart ==
  \A i \in 1..Len(journal) :
    (/\ Consumes(i)
     /\ journal[i].before.cse_consumed_transcript_id = NONE
     /\ journal[i].texts # <<>>)
      => /\ journal[i].after.cse_consumed_transcript_idx
              = journal[i].cut.start_index
         /\ journal[i].after.cse_consumed_transcript_idx
              <= Len(journal[i].before.latest_intermediate_transcript.text)

uuids_of(transcripts) == { transcripts[j].uuid : j \in 1..Len(transcripts) }

\* C30: a non-final save replaces the pending intermediate and leaves the
\* finals, the marker and the offset as they were; a final save appends
\* exactly the saved segment to the finals and resets the pending
\* intermediate to the empty segment
C30_SaveFrame ==
  \A i \in 1..Len(journal) :
    (Saves(i) /\ journal[i].text # <<>>)
      => LET before == journal[i].before
             after == journal[i].after
             n == Len(before.final_transcripts)
         IN IF journal[i].is_final
            THEN /\ Len(after.final_transcripts) = n + 1
                 /\ SubSeq(after.final_transcripts, 1, n)
                      = before.final_transcripts
                 /\ after.final_transcripts[n + 1].text = journal[i].text
                 /\ after.final_transcripts[n + 1].is_final
                 /\ after.final_transcripts[n + 1].uuid
                      \notin uuids_of(before.final_transcripts)
                 /\ after.latest_intermediate_transcript = empty_transcript
            ELSE /\ after.latest_intermediate_transcript.text = journal[i].text
                 /\ ~after.latest_intermediate_transcript.is_final
                 /\ after.final_transcripts = before.final_transcripts
                 /\ after.cse_consumed_transcript_id
                      = before.cse_consumed_transcript_id
                 /\ after.cse_consumed_transcript_idx
                      = before.cse_consumed_transcript_idx

\* a final was saved over a pending intermediate and an earlier final, and
\* an intermediate was saved over another one with the offset not 0
C30_Witness ==
  /\ \E i \in 1..Len(journal) :
       /\ Saves(i) /\ journal[i].is_final
       /\ journal[i].before.latest_intermediate_transcript.text # <<>>
       /\ journal[i].before.final_transcripts # <<>>
  /\ \E i \in 1..Len(journal) :
       /\ Saves(i) /\ ~journal[i].is_final
       /\ journal[i].before.latest_intermediate_transcript.text
            \notin {<<>>, journal[i].text}
       /\ journal[i].before.cse_consumed_transcript_idx # 0

\* the positions in final_transcripts of the finals consume call j
\* returned: the last ones of the list the call read
returned_finals(j) ==
  LET n == Len(journal[j].before.final_transcripts)
  IN (n - journal[j].finals + 1)..n

\* the finals stored after call i that no consume call up to i returned
unreturned_finals(i) ==
  { p \in 1..Len(journal[i].after.final_transcripts) :
      \A j \in 1..i : Consumes(j) => p \notin returned_finals(j) }

\* C31: a save changes the marker only when it saves a final and the
\* marker is -1, then to the uuid of the new final, and never changes the
\* offset; so after every call a marker that is not -1 names the oldest
\* stored final that no consume call has returned
C31_MarkerNamesOldestUnreturned ==
  \A i \in 1..Len(journal) :
    LET before == journal[i].before
        after == journal[i].after
    IN /\ Saves(i)
            => /\ after.cse_consumed_transcript_idx
                    = before.cse_consumed_transcript_idx
               /\ after.cse_consumed_transcript_id
                    = IF journal[i].is_final
                         /\ before.cse_consumed_transcript_id = NONE
                      THEN Last(after.final_transcripts).uuid
                      ELSE before.cse_consumed_transcript_id
       /\ after.cse_consumed_transcript_id # NONE
            => /\ unreturned_finals(i) # {}
               /\ \A p \in unreturned_finals(i) : marker_index(after) <= p
               /\ marker_index(after) \in unreturned_finals(i)

\* the marker names the second final while three are stored: the first was
\* returned, two saved since are not
C31_Witness ==
  \E i \in 1..Len(journal) :
    /\ Saves(i) /\ journal[i].is_final
    /\ journal[i].before.cse_consumed_transcript_id # NONE
    /\ Len(journal[i].after.final_transcripts) = 3
    /\ marker_index(journal[i].after) = 2

\* consume call i returned a span cut out of a stored text
Cutting(i) == Consumes(i) /\ journal[i].cut.applied

\* the words in front of the cut of call i: the text of the previous final
\* (the one before the marker's segment, or the last one when the span is
\* cut out of the intermediate), then the text up to the start index
prior_context(i) ==
  LET user == journal[i].before
      k == IF user.cse_consumed_transcript_id # NONE
           THEN marker_index(user) - 1 ELSE Len(user.final_transcripts)
  IN word_list((IF k >= 1 THEN user.final_transcripts[k].text ELSE <<>>)
                 \o <<SP>>
                 \o PySliceTo(journal[i].cut.text, journal[i].cut.start_index))

\* the words of the returned span in front of the text taken from the cut
backslide_prefix(i) ==
  LET span == word_list(journal[i].texts[1])
  IN SubSeq(span, 1, Len(span) - Len(word_list(journal[i].cut.new_text)))

\* C32: the backslide prefix of a returned span has at most BACKSLIDE_WORDS
\* words and they are the last words, in order, of the prior context
C32_BackslideIsSuffix ==
  \A i \in 1..Len(journal) :
    Cutting(i)
      => LET prefix == backslide_prefix(i)
             context == prior_context(i)
         IN /\ word_list(journal[i].texts[1])
                 = prefix \o word_list(journal[i].cut.new_text)
            /\ Len(prefix) <= backslide
            /\ Len(prefix) <= Len(context)
            /\ prefix = LastWords(context, Len(prefix))

\* a span came back with four words of a longer context in front of it
C32_Witness ==
  \E i \in 1..Len(journal) :
    /\ Cutting(i)
    /\ Len(prior_context(i)) > backslide
    /\ Len(backslide_prefix(i)) = backslide
    /\ journal[i].cut.start_index > 0

\* C33: the backslide prefix has exactly min(BACKSLIDE_WORDS, n) words when
\* the prior context has n words
C33_BackslideLength ==
  \A i \in 1..Len(journal) :
    Cutting(i)
      => Len(backslide_prefix(i)) = Min(backslide, Len(prior_context(i)))

\* the stored text the offset is applied to by a consume call that reads
\* user: the marker's segment, or the intermediate when the marker is -1
offset_text(user) ==
  IF user.cse_consumed_transcript_id # NONE
  THEN user.final_transcripts[marker_index(user)].text
  ELSE user.latest_intermediate_transcript.text

\* consume call i read an offset larger than the length of that text
PastEnd(i) ==
  /\ Consumes(i)
  /\ journal[i].before.cse_consumed_transcript_id # NONE
       => marker_index(journal[i].before) # 0
  /\ journal[i].before.cse_consumed_transcript_idx
       > Len(offset_text(journal[i].before))

\* C34: with an offset past the end of the text, consume returns the texts
\* and stores the cursor that it returns and stores when the offset is the
\* length of the text
C34_OffsetPastEndAsAtEnd ==
  \A i \in 1..Len(journal) :
    PastEnd(i)
      => LET user == journal[i].before
             clamped == [user EXCEPT !.cse_consumed_transcript_idx =
                                        Len(offset_text(user))]
             r == unconsumed_transcripts(clamped)
         IN /\ journal[i].texts = texts_of(r.unconsumed)
            /\ journal[i].after.cse_consumed_transcript_idx = r.new_index
            /\ journal[i].after.cse_consumed_transcript_id = NONE

\* an offset past the end was met in the -1 branch with a pending text
PastEndOfIntermediate ==
  \E i \in 1..Len(journal) :
    /\ PastEnd(i)
    /\ journal[i].before.cse_consumed_transcript_id = NONE
    /\ journal[i].before.latest_intermediate_transcript.text # <<>>

\* an offset past the end was met in the marker branch, where the call
\* returned backslide words only
C34_Witness ==
  \E i \in 1..Len(journal) :
    /\ PastEnd(i)
    /\ journal[i].before.cse_consumed_transcript_id # NONE
    /\ journal[i].ret # <<>>
    /\ journal[i].cut.new_text = <<>>

----------------------------------------------------------------------------
(* Users and devices created on first contact (SpecContact) *)

\* the users passed to a call so far, a save of an empty text not counted
contacted_users ==
  { journal[i].user_id :
      i \in { j \in 1..Len(journal) :
                journal[j].op = "save" => journal[j].text # <<>> } }

\* the devices passed for user_id so far
contacted_devices(user_id) ==
  { journal[i].device_id :
      i \in { j \in 1..Len(journal) :
                journal[j].op = "get_results"
                  /\ journal[j].user_id = user_id } }

records_of(user_id) ==
  { k \in 1..Len(user_collection) : user_collection[k].user_id = user_id }

entries_of(user, device_id) ==
  { k \in 1..Len(user.ui_list) : user.ui_list[k].device_id = device_id }

\* C39: the store holds one record for each user passed to a call and none
\* for the others, and each record's device list holds one entry for each
\* device passed for that user and none for the others
C39_OneRecordPerUserAndDevice ==
  /\ \A u \in UserIds :
       Cardinality(records_of(u)) = IF u \in contacted_users THEN 1 ELSE 0
  /\ \A k \in 1..Len(user_collection) :
       /\ user_collection[k].user_id \in UserIds
       /\ \A d \in Devices :
            Cardinality(entries_of(user_collection[k], d))
              = IF d \in contacted_devices(user_collection[k].user_id)
                THEN 1 ELSE 0
       /\ \A j \in 1..Len(user_collection[k].ui_list) :
            user_collection[k].ui_list[j].device_id \in Devices

\* a user met again by a consume after a save and a device read twice
C39_Witness ==
  /\ Len(journal) = MaxContacts
  /\ \E u \in UserIds :
       /\ \E i, j \in 1..Len(journal) :
            /\ i < j
            /\ journal[i].op = "get_results" /\ journal[i].user_id = u
            /\ journal[j].op = "get_results" /\ journal[j].user_id = u
            /\ journal[i].device_id = journal[j].device_id
       /\ \E i \in 1..Len(journal) :
            journal[i].op = "consume" /\ journal[i].user_id = u
       /\ Cardinality(records_of(u)) = 1
       /\ Len(get_user(user_collection, u).ui_list) = 1
  /\ \E u \in UserIds :
       /\ \E i \in 1..Len(journal) :
            journal[i].op = "save" /\ journal[i].user_id = u
       /\ records_of(u) = {}

----------------------------------------------------------------------------
(* Claims about saves made while a consume call is in flight (SpecInFlight) *)

\* call i saved a final between the read and the write of consume call j
SavedInFlight(i, j) ==
  /\ Saves(i) /\ journal[i].is_final
  /\ Consumes(j) /\ journal[j].read_at < i /\ i < j

\* consume call k read the document after call j had written
StartedAfter(k, j) == Consumes(k) /\ k > j /\ journal[k].read_at >= j

\* C25: a final saved while a consume call is in flight is returned by that
\* call or by a later one: once a consume call that started after the
\* in-flight call ended has completed, the text has been returned
C25_FinalSavedInFlightReturned ==
  \A i \in 1..Len(journal), j \in 1..Len(journal), k \in 1..Len(journal) :
    (SavedInFlight(i, j) /\ StartedAfter(k, j))
      => \E m \in j..k :
           /\ Consumes(m)
           /\ words_of(journal[i].text) \subseteq words_of(journal[m].ret)

====
